---- MODULE Spec2Model ----
(***************************************************************************)
(* A model of the mizan-sdk core: the ExpressionEvaluator (tokenizer and   *)
(* recursive-descent parser), the RuleEngine, the hash-chained AuditLogger *)
(* with its JSONL journal, and the MizanAgent run / runStream pipeline.    *)
(*                                                                         *)
(* JavaScript values are tagged tuples:                                    *)
(*   <<"num", k>>   a number, k counted in units of 1/Scale                *)
(*   <<"nan">>      NaN                                                    *)
(*   <<"str", cs>>  a string, cs its sequence of one-character strings     *)
(*   <<"bool", b>>  a boolean                                              *)
(*   <<"null">>, <<"undef">>                                               *)
(*   <<"obj", r>>   a plain object, r a record from keys to values         *)
(* Strings of the program (expressions, LM text) are sequences of          *)
(* one-character strings, so that the tokenizer and split() work on them   *)
(* character by character.                                                 *)
(***************************************************************************)
EXTENDS Integers, Sequences, FiniteSets, TLC

\* ---------------------------------------------------------------- bounds
\* longest enumerated expression string (characters)
MaxExprLen == 3

\* Numbers are held in units of 1/Scale, so one fractional digit is exact.
Scale == 10

\* ------------------------------------------------------------ JS values
Num(n) == <<"num", n * Scale>>
NaN == <<"nan">>
Str(cs) == <<"str", cs>>
Bool(b) == <<"bool", b>>
Null == <<"null">>
Undefined == <<"undef">>
Obj(r) == <<"obj", r>>

Tag(v) == v[1]

Digits == {"0", "1", "2", "3", "4", "5", "6", "7", "8", "9"}
DigitVal(c) ==
  CASE c = "0" -> 0 [] c = "1" -> 1 [] c = "2" -> 2 [] c = "3" -> 3
    [] c = "4" -> 4 [] c = "5" -> 5 [] c = "6" -> 6 [] c = "7" -> 7
    [] c = "8" -> 8 [] c = "9" -> 9

Letters == {"a", "b", "c", "d", "e", "f", "g", "h", "i", "j", "k", "l", "m",
            "n", "o", "p", "q", "r", "s", "t", "u", "v", "w", "x", "y", "z",
            "A", "B", "C", "D", "E", "F", "G", "H", "I", "J", "K", "L", "M",
            "N", "O", "P", "Q", "R", "S", "T", "U", "V", "W", "X", "Y", "Z"}

\* /\s/
IsSpace(c) == c \in {" "}
\* /[0-9]/
IsDigit(c) == c \in Digits
\* /[a-zA-Z_$]/
IsIdStart(c) == c \in Letters \cup {"_", "$"}
\* /[a-zA-Z0-9_$.]/
IsIdChar(c) == IsIdStart(c) \/ IsDigit(c) \/ c = "."

\* the characters of cs joined into one TLA+ string (a key of a facts record)
RECURSIVE Join(_)
Join(cs) == IF cs = <<>> THEN "" ELSE Head(cs) \o Join(Tail(cs))

\* decimal value of a run of digits
RECURSIVE NatOf(_, _)
NatOf(cs, acc) ==
  IF cs = <<>> THEN acc ELSE NatOf(Tail(cs), acc * 10 + DigitVal(Head(cs)))

\* String.prototype.trim on a character sequence
RECURSIVE TrimLeft(_)
TrimLeft(cs) ==
  IF cs # <<>> /\ IsSpace(Head(cs)) THEN TrimLeft(Tail(cs)) ELSE cs
RECURSIVE TrimRight(_)
TrimRight(cs) ==
  IF cs # <<>> /\ IsSpace(cs[Len(cs)])
  THEN TrimRight(SubSeq(cs, 1, Len(cs) - 1)) ELSE cs
Trim(cs) == TrimRight(TrimLeft(cs))

\* ------------------------------------------------------------ tokenizer
\* Tokens: <<"NUMBER", k>>, <<"STRING", cs>>, <<"BOOL", b>>, <<"NULL">>,
\* <<"IDENT", cs>>, <<"OP", op>>, <<"LOGIC", op>>, <<"NOT">>, <<"LPAREN">>,
\* <<"RPAREN">>, <<"EOF">>.
TokFail == [ok |-> FALSE, toks |-> <<>>]

\* the longest prefix of s (from index i) whose characters satisfy the class
RECURSIVE DigitRunEnd(_, _)
DigitRunEnd(s, i) ==
  IF i <= Len(s) /\ IsDigit(s[i]) THEN DigitRunEnd(s, i + 1) ELSE i
RECURSIVE IdRunEnd(_, _)
IdRunEnd(s, i) ==
  IF i <= Len(s) /\ IsIdChar(s[i]) THEN IdRunEnd(s, i + 1) ELSE i

\* the body of a string literal: from index i up to the closing quote q.
\* A backslash takes the next character verbatim. [ok, str, next]
RECURSIVE StringBody(_, _, _, _)
StringBody(s, i, q, str) ==
  IF i > Len(s) THEN [ok |-> FALSE, str |-> str, next |-> i]
  ELSE IF s[i] = q THEN [ok |-> TRUE, str |-> str, next |-> i + 1]
  ELSE IF s[i] = "\\"
       THEN IF i + 1 > Len(s)
            THEN [ok |-> FALSE, str |-> str, next |-> i]
            ELSE StringBody(s, i + 2, q, Append(str, s[i + 1]))
       ELSE StringBody(s, i + 1, q, Append(str, s[i]))

\* /^[0-9]+(\.[0-9]+)?/ at index i: [value, next]. parseFloat of the match,
\* in units of 1/Scale (the first fractional digit is kept).
NumberAt(s, i) ==
  LET e1 == DigitRunEnd(s, i)
      hasFrac == e1 + 1 <= Len(s) /\ s[e1] = "." /\ IsDigit(s[e1 + 1])
      e2 == IF hasFrac THEN DigitRunEnd(s, e1 + 1) ELSE e1
      int == NatOf(SubSeq(s, i, e1 - 1), 0)
      frac == IF hasFrac THEN DigitVal(s[e1 + 1]) ELSE 0
  IN [value |-> int * Scale + frac, next |-> e2]

Slice(s, i, n) == SubSeq(s, i, IF i + n - 1 <= Len(s) THEN i + n - 1 ELSE Len(s))

KeywordOrIdent(id) ==
  IF id = <<"t", "r", "u", "e">> THEN <<"BOOL", TRUE>>
  ELSE IF id = <<"f", "a", "l", "s", "e">> THEN <<"BOOL", FALSE>>
  ELSE IF id = <<"n", "u", "l", "l">> THEN <<"NULL">>
  ELSE IF id = <<"u", "n", "d", "e", "f", "i", "n", "e", "d">> THEN <<"NULL">>
  ELSE <<"IDENT", id>>

RECURSIVE TokenizeFrom(_, _, _)
TokenizeFrom(s, i, tokens) ==
  IF i > Len(s) THEN [ok |-> TRUE, toks |-> Append(tokens, <<"EOF">>)]
  ELSE IF IsSpace(s[i]) THEN TokenizeFrom(s, i + 1, tokens)
  ELSE IF s[i] = "\"" \/ s[i] = "'"
       THEN LET b == StringBody(s, i + 1, s[i], <<>>)
            IN IF b.ok
               THEN TokenizeFrom(s, b.next, Append(tokens, <<"STRING", b.str>>))
               ELSE TokFail
  ELSE IF IsDigit(s[i])
       THEN LET m == NumberAt(s, i)
            IN TokenizeFrom(s, m.next, Append(tokens, <<"NUMBER", m.value>>))
  ELSE LET slice3 == Slice(s, i, 3)
           slice2 == Slice(s, i, 2)
       IN IF slice3 = <<"=", "=", "=">>
          THEN TokenizeFrom(s, i + 3, Append(tokens, <<"OP", "===">>))
          ELSE IF slice3 = <<"!", "=", "=">>
          THEN TokenizeFrom(s, i + 3, Append(tokens, <<"OP", "!==">>))
          ELSE IF slice2 = <<">", "=">>
          THEN TokenizeFrom(s, i + 2, Append(tokens, <<"OP", ">=">>))
          ELSE IF slice2 = <<"<", "=">>
          THEN TokenizeFrom(s, i + 2, Append(tokens, <<"OP", "<=">>))
          ELSE IF slice2 = <<"!", "=">>
          THEN TokenizeFrom(s, i + 2, Append(tokens, <<"OP", "!=">>))
          ELSE IF slice2 = <<"=", "=">>
          THEN TokenizeFrom(s, i + 2, Append(tokens, <<"OP", "==">>))
          ELSE IF slice2 = <<"&", "&">>
          THEN TokenizeFrom(s, i + 2, Append(tokens, <<"LOGIC", "&&">>))
          ELSE IF slice2 = <<"|", "|">>
          THEN TokenizeFrom(s, i + 2, Append(tokens, <<"LOGIC", "||">>))
          ELSE IF s[i] = ">"
          THEN TokenizeFrom(s, i + 1, Append(tokens, <<"OP", ">">>))
          ELSE IF s[i] = "<"
          THEN TokenizeFrom(s, i + 1, Append(tokens, <<"OP", "<">>))
          ELSE IF s[i] = "!"
          THEN TokenizeFrom(s, i + 1, Append(tokens, <<"NOT">>))
          ELSE IF s[i] = "("
          THEN TokenizeFrom(s, i + 1, Append(tokens, <<"LPAREN">>))
          ELSE IF s[i] = ")"
          THEN TokenizeFrom(s, i + 1, Append(tokens, <<"RPAREN">>))
          ELSE IF IsIdStart(s[i])
          THEN LET e == IdRunEnd(s, i)
               IN TokenizeFrom(s, e, Append(tokens, KeywordOrIdent(SubSeq(s, i, e - 1))))
          ELSE TokFail

\* tokenize(input): [ok, toks]; ok = FALSE models the thrown Error
tokenize(input) == TokenizeFrom(Trim(input), 1, <<>>)

\* ------------------------------------------------- JavaScript operators
\* printable ASCII in code-unit order, from the space (32) on
AsciiChars ==
  <<" ", "!", "\"", "#", "$", "%", "&", "'", "(", ")", "*", "+", ",", "-", ".", "/",
    "0", "1", "2", "3", "4", "5", "6", "7", "8", "9", ":", ";", "<", "=", ">", "?",
    "@", "A", "B", "C", "D", "E", "F", "G", "H", "I", "J", "K", "L", "M", "N", "O",
    "P", "Q", "R", "S", "T", "U", "V", "W", "X", "Y", "Z", "[", "\\", "]", "^", "_",
    "backtick", "a", "b", "c", "d", "e", "f", "g", "h", "i", "j", "k", "l", "m", "n", "o",
    "p", "q", "r", "s", "t", "u", "v", "w", "x", "y", "z", "{", "|", "}", "~">>
CharCode(c) == 31 + (CHOOSE i \in 1..Len(AsciiChars) : AsciiChars[i] = c)

\* a < b on strings: comparison by code units
RECURSIVE StrLess(_, _)
StrLess(a, b) ==
  IF b = <<>> THEN FALSE
  ELSE IF a = <<>> THEN TRUE
  ELSE IF Head(a) = Head(b) THEN StrLess(Tail(a), Tail(b))
  ELSE CharCode(Head(a)) < CharCode(Head(b))

\* Number(string): the empty or blank string is 0, a decimal literal its
\* value, anything else NaN
StringToNumber(cs) ==
  LET t == Trim(cs)
  IN IF t = <<>> THEN <<"num", 0>>
     ELSE IF IsDigit(t[1]) /\ NumberAt(t, 1).next = Len(t) + 1
          THEN <<"num", NumberAt(t, 1).value>>
          ELSE NaN

\* ToNumber
ToNumber(v) ==
  CASE Tag(v) = "num" -> v
    [] Tag(v) = "nan" -> NaN
    [] Tag(v) = "str" -> StringToNumber(v[2])
    [] Tag(v) = "bool" -> IF v[2] THEN Num(1) ELSE Num(0)
    [] Tag(v) = "null" -> Num(0)
    [] Tag(v) = "undef" -> NaN
    [] Tag(v) = "obj" -> NaN

\* Boolean(v)
ToBoolean(v) ==
  CASE Tag(v) = "num" -> v[2] # 0
    [] Tag(v) = "nan" -> FALSE
    [] Tag(v) = "str" -> v[2] # <<>>
    [] Tag(v) = "bool" -> v[2]
    [] Tag(v) = "null" -> FALSE
    [] Tag(v) = "undef" -> FALSE
    [] Tag(v) = "obj" -> TRUE

\* a < b (the abstract relational comparison; undefined counts as false)
JsLess(a, b) ==
  IF Tag(a) = "str" /\ Tag(b) = "str" THEN StrLess(a[2], b[2])
  ELSE LET x == ToNumber(a)
           y == ToNumber(b)
       IN Tag(x) = "num" /\ Tag(y) = "num" /\ x[2] < y[2]

\* a <= b
JsLessEq(a, b) ==
  IF Tag(a) = "str" /\ Tag(b) = "str" THEN ~StrLess(b[2], a[2])
  ELSE LET x == ToNumber(a)
           y == ToNumber(b)
       IN Tag(x) = "num" /\ Tag(y) = "num" /\ x[2] <= y[2]

\* a === b. Two object operands are the same reference: a facts mapping of
\* the model holds at most one object.
StrictEq(a, b) ==
  /\ Tag(a) = Tag(b)
  /\ CASE Tag(a) \in {"null", "undef"} -> TRUE
       [] Tag(a) = "nan" -> FALSE
       [] OTHER -> a[2] = b[2]

ObjectString == <<"[", "o", "b", "j", "e", "c", "t", " ", "O", "b", "j", "e", "c", "t", "]">>

\* a == b
RECURSIVE LooseEq(_, _)
LooseEq(a, b) ==
  IF Tag(a) = Tag(b) THEN StrictEq(a, b)
  ELSE IF Tag(a) \in {"null", "undef"} /\ Tag(b) \in {"null", "undef"} THEN TRUE
  ELSE IF Tag(a) \in {"null", "undef"} \/ Tag(b) \in {"null", "undef"} THEN FALSE
  ELSE IF Tag(a) = "nan" \/ Tag(b) = "nan" THEN FALSE
  ELSE IF Tag(a) = "num" /\ Tag(b) = "str" THEN LooseEq(a, ToNumber(b))
  ELSE IF Tag(a) = "str" /\ Tag(b) = "num" THEN LooseEq(ToNumber(a), b)
  ELSE IF Tag(a) = "bool" THEN LooseEq(ToNumber(a), b)
  ELSE IF Tag(b) = "bool" THEN LooseEq(a, ToNumber(b))
  ELSE IF Tag(a) = "obj" THEN LooseEq(Str(ObjectString), b)
  ELSE LooseEq(a, Str(ObjectString))

\* expression.split('.')
RECURSIVE SplitDots(_, _, _)
SplitDots(cs, cur, parts) ==
  IF cs = <<>> THEN Append(parts, cur)
  ELSE IF Head(cs) = "." THEN SplitDots(Tail(cs), <<>>, Append(parts, cur))
  ELSE SplitDots(Tail(cs), Append(cur, Head(cs)), parts)

\* val[key] for a non-null val: an own property of an object, the length of
\* a string, undefined otherwise
GetProp(val, key) ==
  IF Tag(val) = "obj"
  THEN IF Join(key) \in DOMAIN val[2] THEN val[2][Join(key)] ELSE Undefined
  ELSE IF Tag(val) = "str" /\ key = <<"l", "e", "n", "g", "t", "h">>
       THEN Num(Len(val[2]))
       ELSE Undefined

\* the dotted-path walk of parsePrimary
RECURSIVE WalkPath(_, _, _)
WalkPath(val, parts, i) ==
  IF i > Len(parts) THEN val
  ELSE IF Tag(val) \in {"null", "undef"} THEN Undefined
  ELSE WalkPath(GetProp(val, parts[i]), parts, i + 1)

Lookup(facts, ident) ==
  LET parts == SplitDots(ident, <<>>, <<>>)
  IN WalkPath(GetProp(Obj(facts), parts[1]), parts, 2)

\* --------------------------------------------------- parser / evaluator
\* Each parse operator returns [ok, val, pos]: ok = FALSE models a thrown
\* Error, pos the index of the next token (this.pos, 1-based here).
ParseFail == [ok |-> FALSE, val |-> FALSE, pos |-> 0]

RECURSIVE parseOr(_, _, _)

Compare(op, left, right) ==
  CASE op = ">" -> JsLess(right, left)
    [] op = ">=" -> JsLessEq(right, left)
    [] op = "<" -> JsLess(left, right)
    [] op = "<=" -> JsLessEq(left, right)
    [] op = "===" -> StrictEq(left, right)
    [] op = "==" -> LooseEq(left, right)
    [] op = "!==" -> ~StrictEq(left, right)
    [] op = "!=" -> ~LooseEq(left, right)

\* parsePrimary after the parenthesised parseOr returned r: expects ')'
Parenthesised(toks, r) ==
  IF ~r.ok THEN ParseFail
  ELSE IF toks[r.pos][1] # "RPAREN" THEN ParseFail
  ELSE [ok |-> TRUE, val |-> Bool(r.val), pos |-> r.pos + 1]

parsePrimary(toks, pos, facts) ==
  CASE toks[pos][1] = "LPAREN" -> Parenthesised(toks, parseOr(toks, pos + 1, facts))
    [] toks[pos][1] = "NUMBER" ->
         [ok |-> TRUE, val |-> <<"num", toks[pos][2]>>, pos |-> pos + 1]
    [] toks[pos][1] = "STRING" ->
         [ok |-> TRUE, val |-> Str(toks[pos][2]), pos |-> pos + 1]
    [] toks[pos][1] = "BOOL" ->
         [ok |-> TRUE, val |-> Bool(toks[pos][2]), pos |-> pos + 1]
    [] toks[pos][1] = "NULL" -> [ok |-> TRUE, val |-> Null, pos |-> pos + 1]
    [] toks[pos][1] = "IDENT" ->
         [ok |-> TRUE, val |-> Lookup(facts, toks[pos][2]), pos |-> pos + 1]
    [] OTHER -> ParseFail

\* parseComparison after its right operand r: the comparison's value
Compared(op, left, r) ==
  IF ~r.ok THEN ParseFail
  ELSE [ok |-> TRUE, val |-> Compare(op, left, r.val), pos |-> r.pos]

\* parseComparison after its left operand l
AfterLeft(toks, facts, l) ==
  IF ~l.ok THEN ParseFail
  ELSE IF toks[l.pos][1] = "OP"
       THEN Compared(toks[l.pos][2], l.val, parsePrimary(toks, l.pos + 1, facts))
       ELSE [ok |-> TRUE, val |-> ToBoolean(l.val), pos |-> l.pos]

parseComparison(toks, pos, facts) ==
  AfterLeft(toks, facts, parsePrimary(toks, pos, facts))

\* !operand
Negated(r) == IF ~r.ok THEN ParseFail ELSE [r EXCEPT !.val = ~r.val]

RECURSIVE parseNot(_, _, _)
parseNot(toks, pos, facts) ==
  IF toks[pos][1] = "NOT" THEN Negated(parseNot(toks, pos + 1, facts))
  ELSE parseComparison(toks, pos, facts)

\* left = left && right
Conjoined(l, r) ==
  IF ~r.ok THEN ParseFail ELSE [ok |-> TRUE, val |-> l.val /\ r.val, pos |-> r.pos]

\* the while loop of parseAnd, l being the operand parsed so far
RECURSIVE AndLoop(_, _, _)
AndLoop(toks, facts, l) ==
  IF ~l.ok THEN ParseFail
  ELSE IF toks[l.pos][1] = "LOGIC" /\ toks[l.pos][2] = "&&"
       THEN AndLoop(toks, facts, Conjoined(l, parseNot(toks, l.pos + 1, facts)))
       ELSE l

parseAnd(toks, pos, facts) == AndLoop(toks, facts, parseNot(toks, pos, facts))

\* left = left || right
Disjoined(l, r) ==
  IF ~r.ok THEN ParseFail ELSE [ok |-> TRUE, val |-> l.val \/ r.val, pos |-> r.pos]

\* the while loop of parseOr, l being the operand parsed so far
RECURSIVE OrLoop(_, _, _)
OrLoop(toks, facts, l) ==
  IF ~l.ok THEN ParseFail
  ELSE IF toks[l.pos][1] = "LOGIC" /\ toks[l.pos][2] = "||"
       THEN OrLoop(toks, facts, Disjoined(l, parseAnd(toks, l.pos + 1, facts)))
       ELSE l

parseOr(toks, pos, facts) == OrLoop(toks, facts, parseAnd(toks, pos, facts))

\* the try block of ExpressionEvaluator.evaluate: [threw, value]
\* after parseOr returned r: a token other than EOF left over is an error
Parsed(toks, r) ==
  IF ~r.ok THEN [threw |-> TRUE, value |-> FALSE]
  ELSE IF toks[r.pos][1] # "EOF" THEN [threw |-> TRUE, value |-> FALSE]
  ELSE [threw |-> FALSE, value |-> r.val]
\* after tokenize returned t
Tokenized(t, facts) ==
  IF ~t.ok THEN [threw |-> TRUE, value |-> FALSE]
  ELSE Parsed(t.toks, parseOr(t.toks, 1, facts))
EvaluateBody(expression, facts) == Tokenized(tokenize(expression), facts)

\* ExpressionEvaluator.evaluate(expression, facts): the catch returns false.
\* [threw, value]: threw says whether an error leaves evaluate.
\* no catch: the error leaves evaluate
Caught_Rethrown(b) == b
\* the catch of ExpressionEvaluator.evaluate
Caught(b) ==
  IF b.threw THEN [threw |-> FALSE, value |-> FALSE]
  ELSE [threw |-> FALSE, value |-> b.value]
evaluate(expression, facts) == Caught(EvaluateBody(expression, facts))

\* ExpressionEvaluator.compile(expression): pre-validates by tokenising only.
\* [threw]: the returned predicate is facts |-> evaluate(expression, facts).
compile(expression) == [threw |-> ~tokenize(expression).ok]

\* ---------------------------------------------------------- rule engine
\* A Rule is [id, name, condition, action, reason, priority, score] with
\* score a JS value (Undefined when the optional field is absent).
\* An optional reference (matchedRule, complianceReport, compliance) is a
\* sequence: <<>> for null / absent, <<x>> for x.

\* function compileCondition(condition): _evaluator.compile(condition)
compileCondition(condition) == compile(condition)

\* the test function compile returned, applied to facts
Test(rule, facts) == evaluate(rule.condition, facts)

\* Array.prototype.sort((a, b) => a.priority - b.priority): a stable sort
RECURSIVE InsertByPriority(_, _)
InsertByPriority(sorted, r) ==
  IF sorted = <<>> THEN <<r>>
  ELSE IF sorted[Len(sorted)].priority <= r.priority THEN Append(sorted, r)
  ELSE Append(InsertByPriority(SubSeq(sorted, 1, Len(sorted) - 1), r),
              sorted[Len(sorted)])
\* the sort left out: the rules stay in the order given
SortByPriority_Unsorted(rules) == rules
RECURSIVE SortByPriority(_)
SortByPriority(rules) ==
  IF rules = <<>> THEN <<>>
  ELSE InsertByPriority(SortByPriority(SubSeq(rules, 1, Len(rules) - 1)),
                        rules[Len(rules)])

\* RuleEngine.loadRules(rules): [threw, compiled]. The map over the sorted
\* rules throws at the first condition compile rejects, before this.compiled
\* is assigned.
\* this.compiled is assigned before the conditions are compiled: a failing
\* load leaves the engine without rules
RuleEngine_loadRules_Cleared(old, rules) ==
  IF \E i \in 1..Len(rules) : compileCondition(rules[i].condition).threw
  THEN [threw |-> TRUE, compiled |-> <<>>]
  ELSE [threw |-> FALSE, compiled |-> SortByPriority(rules)]
RuleEngine_loadRules(old, rules) ==
  IF \E i \in 1..Len(rules) : compileCondition(rules[i].condition).threw
  THEN [threw |-> TRUE, compiled |-> old]
  ELSE [threw |-> FALSE, compiled |-> SortByPriority(rules)]

\* RuleEngine.addRule(rule): [threw, compiled]
RuleEngine_addRule(old, rule) ==
  IF compileCondition(rule.condition).threw
  THEN [threw |-> TRUE, compiled |-> old]
  ELSE [threw |-> FALSE, compiled |-> SortByPriority(Append(old, rule))]

DefaultScore(action) ==
  IF action = "APPROVED" THEN Num(85)
  ELSE IF action = "REJECTED" THEN Num(15) ELSE Num(50)

\* rule.score ?? defaultScore
ScoreOf(rule) ==
  IF Tag(rule.score) \in {"undef", "null"} THEN DefaultScore(rule.action)
  ELSE rule.score

\* 'No matching rule found - manual review required' (the dash stands for the
\* em dash of the source)
NoMatchReason ==
  <<"N", "o", " ", "m", "a", "t", "c", "h", "i", "n", "g", " ", "r", "u", "l", "e", " ", "f", "o", "u", "n", "d", " ", "-", " ", "m", "a", "n", "u", "a", "l", " ", "r", "e", "v", "i", "e", "w", " ", "r", "e", "q", "u", "i", "r", "e", "d">>

\* if (test(facts)) inside the try: t is what the call did
Matches(t) == ~t.threw /\ t.value

\* RuleEngine.evaluate(facts), auditId being the fresh crypto.randomUUID()
RECURSIVE EvaluateFrom(_, _, _, _)
EvaluateFrom(rules, i, facts, auditId) ==
  IF i > Len(rules)
  THEN [result |-> "REVIEW", matchedRule |-> <<>>, reason |-> NoMatchReason,
        score |-> Num(50), auditId |-> auditId, complianceReport |-> <<>>]
  ELSE IF Matches(Test(rules[i], facts))
       THEN [result |-> rules[i].action, matchedRule |-> <<rules[i]>>,
             reason |-> rules[i].reason, score |-> ScoreOf(rules[i]),
             auditId |-> auditId, complianceReport |-> <<>>]
       ELSE EvaluateFrom(rules, i + 1, facts, auditId)

RuleEngine_evaluate(rules, facts, auditId) == EvaluateFrom(rules, 1, facts, auditId)

\* ---------------------------------------------------------- audit logger
\* SHA-256 is modelled as a collision-free function: the digest of the data
\* previousHash + JSON.stringify(entry) is the term made of the two parts
\* (previousHash has a fixed width, so the concatenation determines both).
\* '0'.repeat(64)
Genesis == <<"0000000000000000000000000000000000000000000000000000000000000000">>

Without(r, k) == [f \in DOMAIN r \ {k} |-> r[f]]

\* JSON.stringify of a Decision: a property whose value is undefined is left
\* out. The JSON text is modelled as the record of the properties it holds.
StringifyDecision(d) ==
  IF d.complianceReport = <<>> THEN Without(d, "complianceReport")
  ELSE [d EXCEPT !.complianceReport = d.complianceReport[1]]

\* JSON.stringify of an AuditEntry, with or without its hash property
Stringify(e) ==
  LET o == [e EXCEPT !.output = StringifyDecision(e.output)]
  IN IF e.compliance = <<>> THEN Without(o, "compliance")
     ELSE [o EXCEPT !.compliance = e.compliance[1]]

\* JSON.parse of a Decision / of a journal line
ParseDecision(t) ==
  [f \in DOMAIN t \cup {"complianceReport"} |->
     IF f = "complianceReport"
     THEN IF f \in DOMAIN t THEN <<t[f]>> ELSE <<>>
     ELSE t[f]]
Parse(line) ==
  [f \in DOMAIN line \cup {"compliance"} |->
     IF f = "compliance" THEN IF f \in DOMAIN line THEN <<line[f]>> ELSE <<>>
     ELSE IF f = "output" THEN ParseDecision(line[f])
     ELSE line[f]]

\* a journal line JSON.parse throws on
MalformedLine == [malformed |-> TRUE]
IsMalformed(line) == "malformed" \in DOMAIN line

\* AuditLogger.computeHash(previousHash, entry)
computeHash(prevHash, entry) == <<"sha256", prevHash, Stringify(entry)>>

\* log() that writes first and keeps the entry only if the write succeeded
AuditLogger_log_WriteFirst(es, prevHash, file, d, input, ts, writeOk) ==
  LET partial == [id |-> d.auditId, timestamp |-> ts, input |-> input,
                  output |-> d, rule |-> d.matchedRule,
                  previousHash |-> prevHash, compliance |-> <<>>]
      hash == computeHash(prevHash, partial)
      entry == [f \in DOMAIN partial \cup {"hash"} |->
                  IF f = "hash" THEN hash ELSE partial[f]]
  IN [entries |-> IF writeOk THEN Append(es, entry) ELSE es,
      previousHash |-> IF writeOk THEN hash ELSE prevHash,
      journal |-> IF writeOk THEN Append(file, Stringify(entry)) ELSE file,
      entry |-> entry]

\* log() that never writes the journal line
AuditLogger_log_Unwritten(es, prevHash, file, d, input, ts, writeOk) ==
  LET partial == [id |-> d.auditId, timestamp |-> ts, input |-> input,
                  output |-> d, rule |-> d.matchedRule,
                  previousHash |-> prevHash, compliance |-> <<>>]
      hash == computeHash(prevHash, partial)
      entry == [f \in DOMAIN partial \cup {"hash"} |->
                  IF f = "hash" THEN hash ELSE partial[f]]
  IN [entries |-> Append(es, entry), previousHash |-> hash, journal |-> file,
      entry |-> entry]

\* AuditLogger.log(decision, input): the logger's fields and the journal after
\* the call, and the entry returned. ts is new Date().toISOString(), writeOk
\* whether fs.appendFileSync succeeds (its error is swallowed).
AuditLogger_log(es, prevHash, file, d, input, ts, writeOk) ==
  LET partial == [id |-> d.auditId, timestamp |-> ts, input |-> input,
                  output |-> d, rule |-> d.matchedRule,
                  previousHash |-> prevHash, compliance |-> <<>>]
      hash == computeHash(prevHash, partial)
      entry == [f \in DOMAIN partial \cup {"hash"} |->
                  IF f = "hash" THEN hash ELSE partial[f]]
  IN [entries |-> Append(es, entry),
      previousHash |-> hash,
      journal |-> IF writeOk THEN Append(file, Stringify(entry)) ELSE file,
      entry |-> entry]

\* AuditLogger.verify()
RECURSIVE VerifyFrom(_, _, _)
VerifyFrom(es, i, prevHash) ==
  IF i > Len(es) THEN TRUE
  ELSE IF es[i].previousHash # prevHash THEN FALSE
  ELSE IF computeHash(prevHash, Without(es[i], "hash")) # es[i].hash THEN FALSE
  ELSE VerifyFrom(es, i + 1, es[i].hash)
verify(es) == IF Len(es) = 0 THEN TRUE ELSE VerifyFrom(es, 1, es[1].previousHash)

\* AuditLogger.verifyFull(): replays the journal from the genesis hash
RECURSIVE VerifyFullFrom(_, _, _)
VerifyFullFrom(all, i, prevHash) ==
  IF i > Len(all) THEN TRUE
  ELSE IF computeHash(prevHash, Without(all[i], "hash")) # all[i].hash THEN FALSE
  ELSE VerifyFullFrom(all, i + 1, all[i].hash)
verifyFull(file, es) ==
  IF file = <<>> THEN Len(es) = 0
  ELSE IF \E i \in 1..Len(file) : IsMalformed(file[i]) THEN FALSE
  ELSE VerifyFullFrom([i \in 1..Len(file) |-> Parse(file[i])], 1, Genesis)

\* the journal's last line is not read: the chain starts afresh
restoreChainFromDisk_Fresh(file) == Genesis
\* AuditLogger.restoreChainFromDisk(): the chain pointer after construction
\* without preload
restoreChainFromDisk(file) ==
  IF file = <<>> THEN Genesis
  ELSE IF IsMalformed(file[Len(file)]) THEN Genesis
  ELSE Parse(file[Len(file)]).hash

\* the entries are loaded but the chain pointer is left at the genesis hash
loadFromDisk_NoPointer(file) ==
  IF file = <<>> \/ \E i \in 1..Len(file) : IsMalformed(file[i])
  THEN [entries |-> <<>>, previousHash |-> Genesis]
  ELSE [entries |-> [i \in 1..Len(file) |-> Parse(file[i])], previousHash |-> Genesis]
\* AuditLogger.loadFromDisk(): [entries, previousHash] after construction with
\* preload
loadFromDisk(file) ==
  IF file = <<>> THEN [entries |-> <<>>, previousHash |-> Genesis]
  ELSE IF \E i \in 1..Len(file) : IsMalformed(file[i])
       THEN [entries |-> <<>>, previousHash |-> Genesis]
       ELSE [entries |-> [i \in 1..Len(file) |-> Parse(file[i])],
             previousHash |-> Parse(file[Len(file)]).hash]

\* new AuditLogger(filePath, preload)
AuditLogger_new(file, preload) ==
  IF preload THEN loadFromDisk(file)
  ELSE [entries |-> <<>>, previousHash |-> restoreChainFromDisk(file)]

\* ----------------------------------------------------- compliance layer
\* A ComplianceCheck is [status, passed]. What the framework checkers find
\* in an input is a choice among CheckLists; the aggregation is the code's.

deriveOverallStatus_ReviewFirst(checks) ==
  IF \E i \in 1..Len(checks) : checks[i].status = "REVIEW_REQUIRED" THEN "REVIEW_REQUIRED"
  ELSE IF \E i \in 1..Len(checks) : checks[i].status = "NON_COMPLIANT"
       THEN "NON_COMPLIANT"
       ELSE "COMPLIANT"
\* UAEComplianceLayer.deriveOverallStatus(checks)
deriveOverallStatus(checks) ==
  IF \E i \in 1..Len(checks) : checks[i].status = "NON_COMPLIANT" THEN "NON_COMPLIANT"
  ELSE IF \E i \in 1..Len(checks) : checks[i].status = "REVIEW_REQUIRED"
       THEN "REVIEW_REQUIRED"
       ELSE "COMPLIANT"

\* UAEComplianceLayer.generateReport(checks, language): the score is
\* Math.round(passed / total * 100)
generateReport(checks) ==
  LET passed == Cardinality({i \in 1..Len(checks) : checks[i].passed})
      score == IF Len(checks) = 0 THEN 100
               ELSE (200 * passed + Len(checks)) \div (2 * Len(checks))
  IN [overallStatus |-> deriveOverallStatus(checks), checks |-> checks, score |-> score]

CheckLists ==
  { <<[status |-> "NON_COMPLIANT", passed |-> FALSE],
      [status |-> "COMPLIANT", passed |-> TRUE]>> }

\* what one call of compliance.evaluate does: it throws, or returns the
\* report of the checks collected
Evaluations ==
  {[threw |-> FALSE, checks |-> c] : c \in CheckLists}
    \cup {[threw |-> TRUE, checks |-> <<>>]}

\* --------------------------------------------------------------- bounds
\* audit ids handed out (evaluations and appends) in one behaviour
MaxAppends == 2
\* chunks one native stream delivers
MaxChunks == 2
\* rules held by the engine
MaxRules == 2
\* appends to one journal when the logger is used on its own
MaxLogs == 3

\* ------------------------------------------------------------ the pools
EmptyFacts == [k \in {} |-> Null]

BlockedPrefix == <<"B", "l", "o", "c", "k", "e", "d", " ", "b", "y", " ", "r", "u", "l", "e", ":", " ">>

\* the rules an agent is constructed with (options.rules)
AgentRules ==
  << [id |-> "R1", name |-> "risk", condition |-> <<"r", "i", "s", "k", " ", ">", " ", "0", ".", "8">>,
      action |-> "REJECTED", reason |-> <<"T", "o", "o", " ", "r", "i", "s", "k", "y">>, priority |-> 1,
      score |-> Undefined],
     [id |-> "R2", name |-> "bad", condition |-> <<"l", "l", "m", "O", "u", "t", "p", "u", "t", " ", "=", "=", "=", " ", "\"", "n", "o", "\"">>,
      action |-> "REJECTED", reason |-> <<"B", "a", "d", " ", "o", "u", "t", "p", "u", "t">>, priority |-> 2,
      score |-> Undefined],
     [id |-> "R3", name |-> "good", condition |-> <<"l", "l", "m", "O", "u", "t", "p", "u", "t">>,
      action |-> "APPROVED", reason |-> <<"o", "k">>, priority |-> 3,
      score |-> Undefined] >>

\* inputs of run / runStream / log
\* a decimal int.frac with one fractional digit
Dec(int, frac) == <<"num", int * Scale + frac>>
Inputs == { [risk |-> Dec(0, 9)], [risk |-> Dec(0, 1)] }

\* texts the LM returns from think()
LMTexts == { <<"n", "o">>, <<"o", "k", " ", "g", "o">> }
\* errors think() / completeStream reject with
LMErrors == {"timeout"}
\* chunks a native completeStream delivers
LMChunks == { <<"n", "o">>, <<"o", "k", " ">> }

\* ---------------------------------------------------------------- state
VARIABLES
  \* ExpressionEvaluator under test: the expression, the facts, what
  \* compile(expression) and evaluate(expression, facts) did (<<>> before
  \* the call)
  expression, exprFacts, compileOutcome, evalOutcome,
  \* RuleEngine: this.compiled (the rules, sorted), the rules in the order
  \* they were inserted, the Decision returned since the rules last changed
  \* (<<>> when none) and its facts, whether the last loadRules / addRule
  \* threw
  compiled, inserted, decision, decidedFacts, ruleThrew,
  \* the journal file (its lines) and the AuditLogger: this.entries,
  \* this.previousHash; how many entries the constructor loaded; the hash of
  \* the journal's last line when the logger was constructed,
  \* and the preload flag it was constructed with
  journal, entries, previousHash, loaded, hashAtOpen, preload,
  \* crypto.randomUUID() counter, the clock, whether a journal write failed
  nextId, now, everFailed,
  \* what was done to the journal file behind the logger's back: "none",
  \* "deleted", "reordered" or "modified"
  tampering,
  \* the agent: [compliance, stream], whether a compliance layer is
  \* configured and whether the adapter has completeStream
  agent,
  \* the run / runStream call in flight or last finished, with the number
  \* of LM invocations and of logger.log calls it has made
  call,
  \* the chunks passed to onChunk by that call, the record it returned or
  \* passed to onDone (<<>> when none), and how often onDone was invoked
  delivered, response, onDoneCalls,
  \* UAEComplianceLayer under test: the checks its framework checkers
  \* produced and the report generateReport made of them (<<>> before the
  \* call)
  checkList, lastReport,
  \* agents sharing one journal file: the AuditLogger of each agent
  \* ([entries, previousHash]) and the run / runStream calls in flight
  loggers, pipes,
  \* the ExpressionEvaluator instance shared by compiled predicates: its
  \* fields [tokens, pos], and the calls made of the predicates with what
  \* they returned
  evaluator, history,
  \* RAGEngine: the stored documents, the ingest() calls suspended at an
  \* await of embed(), the number of document ids drawn so far, and what
  \* the last completed ingest / reingest / deleteDocument returned
  documents, ingests, nextDoc, ingestResult,
  \* the last verifyFull() call: what it returned and the journal, entries
  \* and chain pointer it was made on
  lastVerify,
  \* the last detectConflicts() call: the rules it ran on and what it returned
  conflicts,
  \* UAEComplianceLayer called directly: the last quickCheck(input, decision)
  \* with what it returned, and the arguments of the last evaluate(...)
  quick, evaluated

exprVars == <<expression, exprFacts, compileOutcome, evalOutcome>>
engineVars == <<compiled, inserted, decision, decidedFacts, ruleThrew>>
loggerVars == <<journal, entries, previousHash, loaded, hashAtOpen, preload, now,
               everFailed, tampering>>
callVars == <<agent, call, delivered, response, onDoneCalls>>
reportVars == <<checkList, lastReport>>
sharedVars == <<loggers, pipes>>
instanceVars == <<evaluator, history>>
layerVars == <<quick, evaluated>>
conflictVars == <<conflicts>>
verifyVars == <<lastVerify>>
ragVars == <<documents, ingests, nextDoc, ingestResult>>

\* new ExpressionEvaluator(): tokens = [], pos = 0
NewEvaluator == [tokens |-> <<>>, pos |-> 0]
vars == <<exprVars, engineVars, loggerVars, nextId, callVars, reportVars, sharedVars,
          instanceVars, layerVars, conflictVars, verifyVars, ragVars>>

IdleCall ==
  [pc |-> "idle", kind |-> "none", input |-> EmptyFacts, preDecision |-> <<>>,
   preAudit |-> <<>>, chunks |-> <<>>, hasOnDone |-> FALSE, lmCalls |-> 0,
   logged |-> 0, error |-> <<>>, cancelled |-> FALSE]

\* ------------------------------------------------------- agent pipeline
\* MizanAgent.applyCompliance(input, decision, auditEntry): the report is
\* attached to the Decision and to the AuditEntry objects, which are the
\* objects this.entries and entry.output refer to. l is what logger.log
\* left and returned; the result is l after the two assignments, with the
\* Decision, and whether compliance.evaluate threw (nothing catches it):
\* [entries, previousHash, journal, entry, decision, threw]. ev is what
\* this.compliance.evaluate does: it throws, or returns the report of the
\* checks it collected.
applyCompliance(l, d, ev) ==
  IF ~agent.compliance \/ ev.threw
  THEN [entries |-> l.entries, previousHash |-> l.previousHash,
        journal |-> l.journal, entry |-> l.entry, decision |-> d,
        threw |-> agent.compliance]
  ELSE LET report == generateReport(ev.checks)
           d2 == [d EXCEPT !.complianceReport = <<report>>]
           e2 == [l.entry EXCEPT !.output = d2, !.compliance = <<report>>]
       IN [entries |-> [l.entries EXCEPT ![Len(l.entries)] = e2],
           previousHash |-> l.previousHash, journal |-> l.journal,
           entry |-> e2, decision |-> d2, threw |-> FALSE]

\* logger.log(d, facts) and applyCompliance(facts, d, entry)
LogAndComply(d, facts, ts, writeOk, ev) ==
  applyCompliance(AuditLogger_log(entries, previousHash, journal, d, facts, ts, writeOk),
                  d, ev)

\* engine.evaluate, logger.log and applyCompliance, as run and runStream do
\* them for the pre-check and again for the post-check
CheckAndLog(facts, ts, writeOk, ev) ==
  LogAndComply(RuleEngine_evaluate(compiled, facts, nextId), facts, ts, writeOk, ev)

\* the logger's and journal's part of a step that ran CheckAndLog
Logged(r, ts, writeOk) ==
  /\ entries' = r.entries
  /\ previousHash' = r.previousHash
  /\ journal' = r.journal
  /\ now' = ts + 1
  /\ nextId' = nextId + 1
  /\ everFailed' = (everFailed \/ ~writeOk)
  /\ UNCHANGED <<loaded, hashAtOpen, preload, tampering>>

\* new Date() in log(): the clock reads one tick later at every append
Timestamps == {now}

\* { ...input, llmOutput: output }
PostFacts(input, output) ==
  [k \in DOMAIN input \cup {"llmOutput"} |->
     IF k = "llmOutput" THEN Str(output) ELSE input[k]]

\* output.split(' ')
RECURSIVE SplitSpaces(_, _, _)
SplitSpaces(cs, cur, parts) ==
  IF cs = <<>> THEN Append(parts, cur)
  ELSE IF Head(cs) = " " THEN SplitSpaces(Tail(cs), <<>>, Append(parts, cur))
  ELSE SplitSpaces(Tail(cs), Append(cur, Head(cs)), parts)

\* chunks.join('')
RECURSIVE JoinChunks(_)
JoinChunks(chunks) ==
  IF chunks = <<>> THEN <<>> ELSE Head(chunks) \o JoinChunks(Tail(chunks))

Blocked(d) == BlockedPrefix \o d.reason

\* the pre-check's result ignored: the call always goes on to the LM
IsRejected_Never(d) == d.result = "REJECTED" /\ FALSE
\* if (preDecision.result === 'REJECTED')
IsRejected(d) == d.result = "REJECTED"

\* what compliance.evaluate throws
ComplianceError == "compliance"

\* the call after its post-check: over, or rejected with what
\* compliance.evaluate threw
PostChecked(threw) ==
  [call EXCEPT !.pc = IF threw THEN "failed" ELSE "done",
               !.logged = call.logged + 1,
               !.error = IF threw THEN <<ComplianceError>> ELSE <<>>]

\* run(input) up to its return (REJECTED) or its await of think(input)
RunStart(input, ts, writeOk, ev) ==
  /\ call.pc \in {"idle", "done", "failed"}
  /\ ~preload
  /\ nextId <= MaxAppends
  /\ \E r \in {CheckAndLog(input, ts, writeOk, ev)} :
        /\ Logged(r, ts, writeOk)
        /\ IF r.threw
           THEN /\ call' = [IdleCall EXCEPT !.pc = "failed", !.kind = "run",
                                             !.input = input,
                                             !.preDecision = <<r.decision>>,
                                             !.preAudit = <<r.entry>>,
                                             !.logged = 1,
                                             !.error = <<ComplianceError>>]
                /\ response' = <<>>
           ELSE IF IsRejected(r.decision)
           THEN /\ call' = [IdleCall EXCEPT !.pc = "done", !.kind = "run",
                                             !.input = input,
                                             !.preDecision = <<r.decision>>,
                                             !.preAudit = <<r.entry>>,
                                             !.logged = 1]
                /\ response' = <<[output |-> Blocked(r.decision),
                                  decisions |-> <<r.decision>>,
                                  auditTrail |-> <<r.entry>>]>>
           ELSE /\ call' = [IdleCall EXCEPT !.pc = "awaitThink", !.kind = "run",
                                             !.input = input,
                                             !.preDecision = <<r.decision>>,
                                             !.preAudit = <<r.entry>>,
                                             !.lmCalls = 1, !.logged = 1]
                /\ response' = <<>>
  /\ delivered' = <<>>
  /\ onDoneCalls' = 0
  /\ UNCHANGED <<exprVars, reportVars, sharedVars, instanceVars, layerVars, conflictVars, verifyVars, ragVars, engineVars, agent>>

\* run: think(input) resolved with output; the post-check and the return
RunThinkResolved(output, ts, writeOk, ev) ==
  /\ call.pc = "awaitThink"
  /\ nextId <= MaxAppends
  /\ \E r \in {CheckAndLog(PostFacts(call.input, output), ts, writeOk, ev)} :
        /\ Logged(r, ts, writeOk)
        /\ response' = IF r.threw THEN <<>>
                       ELSE <<[output |-> output,
                               decisions |-> <<call.preDecision[1], r.decision>>,
                               auditTrail |-> <<call.preAudit[1], r.entry>>]>>
        /\ call' = PostChecked(r.threw)
  /\ UNCHANGED <<exprVars, reportVars, sharedVars, instanceVars, layerVars, conflictVars, verifyVars, ragVars, engineVars, agent, delivered, onDoneCalls>>

\* run / runStream: the awaited LM call rejected with err; nothing catches
\* it, so the promise of run / runStream rejects with err
LMRejected(err) ==
  /\ call.pc \in {"awaitThink", "awaitStream", "awaitThinkStream"}
  /\ call' = [call EXCEPT !.pc = "failed", !.error = <<err>>]
  /\ UNCHANGED <<exprVars, reportVars, sharedVars, instanceVars, layerVars, conflictVars, verifyVars, ragVars, engineVars, loggerVars, nextId, agent, delivered,
                 response, onDoneCalls>>

\* the record runStream hands to onDone, when onDone is given
OnDone(hasOnDone, record) ==
  IF hasOnDone
  THEN /\ response' = <<record>>
       /\ onDoneCalls' = onDoneCalls + 1
  ELSE /\ response' = <<>>
       /\ UNCHANGED onDoneCalls

\* runStream(input, onChunk, onDone) up to its return (REJECTED) or its
\* await of completeStream / think
RunStreamStart(input, hasOnDone, ts, writeOk, ev) ==
  /\ call.pc \in {"idle", "done", "failed"}
  /\ ~preload
  /\ nextId <= MaxAppends
  /\ \E r \in {CheckAndLog(input, ts, writeOk, ev)} :
     LET started == [IdleCall EXCEPT !.kind = "runStream", !.input = input,
                                     !.preDecision = <<r.decision>>,
                                     !.preAudit = <<r.entry>>,
                                     !.hasOnDone = hasOnDone, !.logged = 1]
     IN /\ Logged(r, ts, writeOk)
        /\ IF r.threw
           THEN /\ call' = [started EXCEPT !.pc = "failed",
                                            !.error = <<ComplianceError>>]
                /\ delivered' = <<>>
                /\ response' = <<>>
                /\ onDoneCalls' = 0
           ELSE IF IsRejected(r.decision)
           THEN /\ call' = [started EXCEPT !.pc = "done"]
                /\ delivered' = <<Blocked(r.decision)>>
                /\ IF hasOnDone
                   THEN /\ response' = <<[output |-> Blocked(r.decision),
                                          decisions |-> <<r.decision>>,
                                          auditTrail |-> <<r.entry>>]>>
                        /\ onDoneCalls' = 1
                   ELSE /\ response' = <<>>
                        /\ onDoneCalls' = 0
           ELSE /\ call' = [started EXCEPT
                              !.pc = IF agent.stream THEN "awaitStream"
                                     ELSE "awaitThinkStream",
                              !.lmCalls = 1]
                /\ delivered' = <<>>
                /\ response' = <<>>
                /\ onDoneCalls' = 0
  /\ UNCHANGED <<exprVars, reportVars, sharedVars, instanceVars, layerVars, conflictVars, verifyVars, ragVars, engineVars, agent>>

\* the chunk is kept for the output but not handed to onChunk
StreamChunk_Dropped(chunk) ==
  /\ call.pc = "awaitStream"
  /\ Len(call.chunks) < MaxChunks
  /\ call' = [call EXCEPT !.chunks = Append(call.chunks, chunk)]
  /\ UNCHANGED <<exprVars, reportVars, sharedVars, instanceVars, layerVars, conflictVars, verifyVars, ragVars, engineVars, loggerVars,
                 nextId, agent, response, onDoneCalls, delivered>>

\* the chunk is handed to onChunk ahead of the chunks handed over before
StreamChunk_Reordered(chunk) ==
  /\ call.pc = "awaitStream"
  /\ Len(call.chunks) < MaxChunks
  /\ call' = [call EXCEPT !.chunks = Append(call.chunks, chunk)]
  /\ delivered' = <<chunk>> \o delivered
  /\ UNCHANGED <<exprVars, reportVars, sharedVars, instanceVars, layerVars, conflictVars, verifyVars, ragVars, engineVars, loggerVars, nextId, agent, response,
                 onDoneCalls>>

\* runStream, native streaming: the adapter calls back with a chunk
StreamChunk(chunk) ==
  /\ call.pc = "awaitStream"
  /\ Len(call.chunks) < MaxChunks
  /\ call' = [call EXCEPT !.chunks = Append(call.chunks, chunk)]
  /\ delivered' = Append(delivered, chunk)
  /\ UNCHANGED <<exprVars, reportVars, sharedVars, instanceVars, layerVars, conflictVars, verifyVars, ragVars, engineVars, loggerVars, nextId, agent, response,
                 onDoneCalls>>

\* runStream, native streaming: completeStream resolved; post-check, onDone
StreamResolved(ts, writeOk, ev) ==
  /\ call.pc = "awaitStream"
  /\ nextId <= MaxAppends
  /\ \E output \in {JoinChunks(call.chunks)} :
     \E r \in {CheckAndLog(PostFacts(call.input, output), ts, writeOk, ev)} :
        /\ Logged(r, ts, writeOk)
        /\ OnDone(call.hasOnDone /\ ~r.threw,
                  [output |-> output,
                   decisions |-> <<call.preDecision[1], r.decision>>,
                   auditTrail |-> <<call.preAudit[1], r.entry>>])
        /\ call' = PostChecked(r.threw)
  /\ UNCHANGED <<exprVars, reportVars, sharedVars, instanceVars, layerVars, conflictVars, verifyVars, ragVars, engineVars, agent, delivered>>

\* the post-check is left to onDone: the words are streamed and runStream
\* returns, nothing evaluated and nothing logged
StreamThinkResolved_Unlogged(output, ts, writeOk, ev) ==
  /\ call.pc = "awaitThinkStream"
  /\ nextId <= MaxAppends
  /\ \E words \in {SplitSpaces(output, <<>>, <<>>)} :
        delivered' = [i \in 1..Len(words) |-> words[i] \o <<" ">>]
  /\ call' = [call EXCEPT !.pc = "done"]
  /\ UNCHANGED <<exprVars, reportVars, sharedVars, instanceVars, layerVars, conflictVars, verifyVars, ragVars, engineVars,
                 agent, loggerVars, nextId, response, onDoneCalls>>

\* runStream, fallback: think(input) resolved with output; its words are
\* handed to onChunk, then the post-check and onDone
StreamThinkResolved(output, ts, writeOk, ev) ==
  /\ call.pc = "awaitThinkStream"
  /\ nextId <= MaxAppends
  /\ \E words \in {SplitSpaces(output, <<>>, <<>>)} :
        delivered' = [i \in 1..Len(words) |-> words[i] \o <<" ">>]
  /\ \E r \in {CheckAndLog(PostFacts(call.input, output), ts, writeOk, ev)} :
        /\ Logged(r, ts, writeOk)
        /\ OnDone(call.hasOnDone /\ ~r.threw,
                  [output |-> output,
                   decisions |-> <<call.preDecision[1], r.decision>>,
                   auditTrail |-> <<call.preAudit[1], r.entry>>])
        /\ call' = PostChecked(r.threw)
  /\ UNCHANGED <<exprVars, reportVars, sharedVars, instanceVars, layerVars, conflictVars, verifyVars, ragVars, engineVars, agent>>

\* AuditLogger.log(decision, input) called on the logger directly, with a
\* Decision of the engine
Log(input, ts, writeOk) ==
  /\ \E d \in {RuleEngine_evaluate(compiled, input, nextId)} :
        Logged(AuditLogger_log(entries, previousHash, journal, d, input, ts, writeOk),
               ts, writeOk)
  /\ UNCHANGED <<exprVars, reportVars, sharedVars, instanceVars, layerVars, conflictVars, verifyVars, ragVars, engineVars, callVars>>

\* the process ends and a new AuditLogger is constructed on the same path
\* (by a new agent when flag is false); calls in flight are gone
Reopen(flag) ==
  /\ LET l == AuditLogger_new(journal, flag)
     IN /\ entries' = l.entries
        /\ previousHash' = l.previousHash
        /\ loaded' = Len(l.entries)
  /\ hashAtOpen' = IF journal = <<>> \/ IsMalformed(journal[Len(journal)])
                  THEN Genesis ELSE journal[Len(journal)].hash
  /\ preload' = flag
  /\ call' = IdleCall
  /\ delivered' = <<>>
  /\ response' = <<>>
  /\ onDoneCalls' = 0
  /\ UNCHANGED <<exprVars, reportVars, sharedVars, instanceVars, layerVars, conflictVars, verifyVars, ragVars, engineVars, journal, now, everFailed, tampering, nextId,
                 agent>>

Init ==
  /\ expression = <<>>
  /\ exprFacts = EmptyFacts
  /\ compileOutcome = <<>>
  /\ evalOutcome = <<>>
  /\ checkList = <<>>
  /\ lastReport = <<>>
  /\ loggers = <<>>
  /\ pipes = <<>>
  /\ evaluator = NewEvaluator
  /\ history = <<>>
  /\ quick = <<>>
  /\ evaluated = <<>>
  /\ conflicts = <<>>
  /\ lastVerify = <<>>
  /\ documents = <<>>
  /\ ingests = {}
  /\ nextDoc = 1
  /\ ingestResult = <<>>
  /\ compiled = RuleEngine_loadRules(<<>>, AgentRules).compiled
  /\ inserted = AgentRules
  /\ decision = <<>>
  /\ decidedFacts = EmptyFacts
  /\ ruleThrew = FALSE
  /\ journal = <<>>
  /\ entries = <<>>
  /\ previousHash = Genesis
  /\ loaded = 0
  /\ hashAtOpen = Genesis
  /\ preload = FALSE
  /\ nextId = 1
  /\ now = 0
  /\ everFailed = FALSE
  /\ tampering = "none"
  /\ agent \in [compliance : BOOLEAN, stream : BOOLEAN]
  /\ call = IdleCall
  /\ delivered = <<>>
  /\ response = <<>>
  /\ onDoneCalls = 0

Next ==
  \/ \E input \in Inputs, ts \in Timestamps, writeOk \in BOOLEAN, ev \in Evaluations :
       RunStart(input, ts, writeOk, ev)
  \/ \E output \in LMTexts, ts \in Timestamps, writeOk \in BOOLEAN, ev \in Evaluations :
       RunThinkResolved(output, ts, writeOk, ev)
  \/ \E err \in LMErrors : LMRejected(err)
  \/ \E input \in Inputs, hasOnDone \in BOOLEAN, ts \in Timestamps, writeOk \in BOOLEAN,
        ev \in Evaluations :
       RunStreamStart(input, hasOnDone, ts, writeOk, ev)
  \/ \E chunk \in LMChunks : StreamChunk(chunk)
  \/ \E ts \in Timestamps, writeOk \in BOOLEAN, ev \in Evaluations :
       StreamResolved(ts, writeOk, ev)
  \/ \E output \in LMTexts, ts \in Timestamps, writeOk \in BOOLEAN, ev \in Evaluations :
       StreamThinkResolved(output, ts, writeOk, ev)
  \/ \E input \in Inputs, ts \in Timestamps, writeOk \in BOOLEAN :
       nextId <= MaxAppends /\ Log(input, ts, writeOk)
  \/ \E flag \in BOOLEAN : Reopen(flag)

Spec == Init /\ [][Next]_vars

\* ------------------------------------------------ claims about the agent
HashCorrect(e) == e.hash = computeHash(e.previousHash, Without(e, "hash"))

\* C1: hash correctness. Every entry of the logger's in-memory list and
\* every entry of an auditTrail handed back satisfies
\* e.hash = SHA256(e.previousHash || serialisation of e without hash), and
\* verify() returns true, after any log / run / runStream calls, with or
\* without a compliance layer.
C1_HashCorrectness ==
  /\ \A i \in 1..Len(entries) : HashCorrect(entries[i])
  /\ response # <<>> =>
       \A i \in 1..Len(response[1].auditTrail) : HashCorrect(response[1].auditTrail[i])
  /\ verify(entries)

\* a finished run or runStream call whose pre-check decision was REJECTED
RejectedCall ==
  /\ call.kind \in {"run", "runStream"}
  /\ call.preDecision # <<>>
  /\ call.preDecision[1].result = "REJECTED"

\* C6: REJECTED short-circuit. In run and in runStream, when the pre-check
\* decision is REJECTED the call is over without any LM invocation, it has
\* appended exactly one audit entry, and its result (returned by run, handed
\* to onDone by runStream) holds the output "Blocked by rule: " + reason, one
\* decision and an auditTrail of one entry; runStream hands that text to
\* onChunk.
C6_RejectedShortCircuit ==
  RejectedCall =>
    /\ call.pc = "done"
    /\ call.lmCalls = 0
    /\ call.logged = 1
    /\ (call.kind = "run" \/ call.hasOnDone) =>
         /\ response # <<>>
         /\ response[1].output = BlockedPrefix \o call.preDecision[1].reason
         /\ response[1].decisions = <<call.preDecision[1]>>
         /\ Len(response[1].auditTrail) = 1
         /\ response[1].auditTrail[1].id = call.preDecision[1].auditId
    /\ call.kind = "runStream" =>
         delivered = <<BlockedPrefix \o call.preDecision[1].reason>>

C6_Witness ==
  /\ RejectedCall
  /\ call.kind = "runStream"
  /\ call.hasOnDone
  /\ response # <<>>
  /\ Len(entries) = 1

\* the AuditLogger used on its own: appends and restarts on one journal
NextLog ==
  \/ \E input \in Inputs, ts \in Timestamps, writeOk \in BOOLEAN :
       nextId <= MaxLogs /\ Log(input, ts, writeOk)
  \/ \E flag \in BOOLEAN : Reopen(flag)

SpecLog == Init /\ [][NextLog]_vars

\* ----------------------------------------------- claims about the logger
\* the logger was constructed on an absent or empty journal
OpenedEmpty == hashAtOpen = Genesis

\* C2: hash chain linkage. After any log() calls on a logger, whether or not
\* the journal writes succeeded, every two consecutive in-memory entries
\* satisfy entry[i+1].previousHash = entry[i].hash, and the first entry of a
\* logger opened on an absent or empty journal has previousHash = 64 zeros.
C2_ChainLinkage ==
  /\ \A i \in 1..(Len(entries) - 1) : entries[i + 1].previousHash = entries[i].hash
  /\ (OpenedEmpty /\ Len(entries) > 0) => entries[1].previousHash = Genesis

\* C3: restart continuity. The first entry appended by a logger constructed
\* (with either preload flag) on a non-empty journal has previousHash equal
\* to the hash field of the journal's last line at construction.
C3_RestartContinuity ==
  (~OpenedEmpty /\ Len(entries) > loaded) =>
    entries[loaded + 1].previousHash = hashAtOpen

C3_Witness ==
  /\ ~OpenedEmpty
  /\ preload
  /\ loaded = 2
  /\ Len(entries) = 3

\* C4: when every journal write has succeeded, on a journal that started
\* absent and was written by log() alone, with restarts of either kind
\* between the appends, verifyFull() is true after every append.
C4_VerifyFullAfterAppends ==
  ~everFailed => verifyFull(journal, entries)

C4_Witness ==
  /\ ~everFailed
  /\ Len(journal) = 3
  /\ ~preload
  /\ Len(entries) = 1
  /\ verifyFull(journal, entries)

\* ------------------------------------------------- tampered journal file
\* an outside party edits the file of a journal that verifies
Tamperable == tampering = "none" /\ journal # <<>> /\ verifyFull(journal, entries)

\* the lines at the positions in gone are deleted
DeleteLines(gone) ==
  /\ Tamperable
  /\ gone # {}
  /\ LET kept == SelectSeq([i \in 1..Len(journal) |-> i], LAMBDA i : i \notin gone)
     IN journal' = [k \in 1..Len(kept) |-> journal[kept[k]]]
  /\ tampering' = "deleted"
  /\ UNCHANGED <<exprVars, reportVars, sharedVars, instanceVars, layerVars, conflictVars, verifyVars, ragVars, engineVars, entries, previousHash, loaded, hashAtOpen,
                 preload, now, everFailed, nextId, callVars>>

\* the lines are put in another order
ReorderLines(perm) ==
  /\ Tamperable
  /\ \E i \in 1..Len(journal) : perm[i] # i
  /\ journal' = [i \in 1..Len(journal) |-> journal[perm[i]]]
  /\ tampering' = "reordered"
  /\ UNCHANGED <<exprVars, reportVars, sharedVars, instanceVars, layerVars, conflictVars, verifyVars, ragVars, engineVars, entries, previousHash, loaded, hashAtOpen,
                 preload, now, everFailed, nextId, callVars>>

\* a field of line i is given another value, the hashes left as they are
FieldEdits(line) ==
  { [line EXCEPT !.timestamp = line.timestamp + 1],
    [line EXCEPT !.id = 0],
    [line EXCEPT !.input = EmptyFacts],
    [line EXCEPT !.output.reason = <<"x">>],
    [line EXCEPT !.output.result = "APPROVED"],
    [line EXCEPT !.rule = <<>>],
    [line EXCEPT !.previousHash = <<"f">>],
    [line EXCEPT !.hash = <<"f">>] } \ {line}
ModifyField(i, edited) ==
  /\ Tamperable
  /\ i \in 1..Len(journal)
  /\ edited \in FieldEdits(journal[i])
  /\ journal' = [journal EXCEPT ![i] = edited]
  /\ tampering' = "modified"
  /\ UNCHANGED <<exprVars, reportVars, sharedVars, instanceVars, layerVars, conflictVars, verifyVars, ragVars, engineVars, entries, previousHash, loaded, hashAtOpen,
                 preload, now, everFailed, nextId, callVars>>

NextTamper ==
  \/ \E input \in Inputs, ts \in Timestamps, writeOk \in BOOLEAN :
       tampering = "none" /\ nextId <= MaxLogs /\ Log(input, ts, writeOk)
  \/ \E flag \in BOOLEAN : Reopen(flag)
  \/ \E gone \in SUBSET (1..Len(journal)) : DeleteLines(gone)
  \/ \E perm \in Permutations(1..Len(journal)) : ReorderLines(perm)
  \/ \E i \in 1..Len(journal) : \E edited \in FieldEdits(journal[i]) :
       ModifyField(i, edited)

SpecTamper == Init /\ [][NextTamper]_vars

\* C5: tamper evidence. Once lines of a journal that verified have been
\* deleted (the last lines included), reordered, or changed in a field
\* without recomputing hashes, verifyFull() returns false.
C5_TamperEvidence ==
  tampering # "none" => ~verifyFull(journal, entries)

\* ------------------------------------------------ expression evaluator
\* the characters expressions are made of, and some longer expressions
ExprAlphabet == {"a", ".", "1", "!", "=", "(", ")", "#", " "}
LongerExprs ==
  { <<"a", " ", "!", "=", " ", "1">>,
    <<"!", "a", ".", "a">>,
    <<"a", ".", "a", " ", "=", "=", " ", "n", "u", "l", "l">>,
    <<"a", " ", ">", " ", "1", " ", "&", "&", " ", "(", "a", " ", "<", " ", "3", ")">>,
    <<"a", " ", ">", " ">>,
    <<"\"", "a">>,
    <<"a", " ", ">", " ", "1">>,
    <<"a", " ", ">", "=", " ", "2">>,
    <<"a", " ", "<", " ", "\"", "b", "\"">>,
    <<"a", " ", "<", "=", " ", "\"", "1", "1", "\"">> }
Expressions ==
  UNION {[1..n -> ExprAlphabet] : n \in 0..MaxExprLen} \cup LongerExprs
ExprFacts ==
  { EmptyFacts, [a |-> Num(2)], [a |-> Null], [a |-> Obj([a |-> Num(1)])],
    [a |-> Str(<<"a">>)], [a |-> Str(<<"2">>)] }

\* ExpressionEvaluator.compile(expression) is called
CompileExpr ==
  /\ compileOutcome = <<>>
  /\ compileOutcome' = <<compile(expression)>>
  /\ UNCHANGED <<reportVars, sharedVars, instanceVars, layerVars, conflictVars, verifyVars, ragVars, expression, exprFacts, evalOutcome, engineVars, loggerVars, nextId,
                 callVars>>

\* ExpressionEvaluator.evaluate(expression, exprFacts) is called
EvaluateExpr ==
  /\ evalOutcome = <<>>
  /\ evalOutcome' = <<evaluate(expression, exprFacts)>>
  /\ UNCHANGED <<reportVars, sharedVars, instanceVars, layerVars, conflictVars, verifyVars, ragVars, expression, exprFacts, compileOutcome, engineVars, loggerVars,
                 nextId, callVars>>

InitExpr ==
  /\ expression \in Expressions
  /\ exprFacts \in ExprFacts
  /\ compileOutcome = <<>>
  /\ evalOutcome = <<>>
  /\ checkList = <<>>
  /\ lastReport = <<>>
  /\ loggers = <<>>
  /\ pipes = <<>>
  /\ evaluator = NewEvaluator
  /\ history = <<>>
  /\ quick = <<>>
  /\ evaluated = <<>>
  /\ conflicts = <<>>
  /\ lastVerify = <<>>
  /\ documents = <<>>
  /\ ingests = {}
  /\ nextDoc = 1
  /\ ingestResult = <<>>
  /\ compiled = <<>>
  /\ inserted = <<>>
  /\ decision = <<>>
  /\ decidedFacts = EmptyFacts
  /\ ruleThrew = FALSE
  /\ journal = <<>>
  /\ entries = <<>>
  /\ previousHash = Genesis
  /\ loaded = 0
  /\ hashAtOpen = Genesis
  /\ preload = FALSE
  /\ nextId = 1
  /\ now = 0
  /\ everFailed = FALSE
  /\ tampering = "none"
  /\ agent = [compliance |-> FALSE, stream |-> FALSE]
  /\ call = IdleCall
  /\ delivered = <<>>
  /\ response = <<>>
  /\ onDoneCalls = 0

NextExpr == CompileExpr \/ EvaluateExpr

SpecExpr == InitExpr /\ [][NextExpr]_vars

\* the expression is not a predicate of the grammar: tokenising it or
\* parsing its tokens fails (whatever the facts are)
NotDerivable(e) == EvaluateBody(e, EmptyFacts).threw

\* C8: fail fast on load. compile(expr) throws for every string that is not
\* derivable from the predicate grammar, lexical errors and token sequences
\* that do not parse alike (and for no other string).
C8_CompileFailsFast ==
  compileOutcome # <<>> => (compileOutcome[1].threw <=> NotDerivable(expression))

\* some identifier of the expression has a path that is missing in the facts
\* or passes through null
MissingIdentifier ==
  /\ tokenize(expression).ok
  /\ \E i \in 1..Len(tokenize(expression).toks) :
       /\ tokenize(expression).toks[i][1] = "IDENT"
       /\ Lookup(exprFacts, tokenize(expression).toks[i][2]) = Undefined

\* the expression is one identifier and nothing else
BareIdentifier ==
  /\ tokenize(expression).ok
  /\ Len(tokenize(expression).toks) = 2
  /\ tokenize(expression).toks[1][1] = "IDENT"

RulePool ==
  { [id |-> "P1", name |-> "big", condition |-> <<"a", " ", ">", " ", "1">>,
     action |-> "APPROVED", reason |-> <<"b", "i", "g">>, priority |-> 1,
     score |-> Undefined],
    [id |-> "P2", name |-> "set", condition |-> <<"a">>,
     action |-> "REJECTED", reason |-> <<"s", "e", "t">>, priority |-> 1,
     score |-> Undefined],
    [id |-> "P3", name |-> "unset", condition |-> <<"!", "a">>,
     action |-> "REVIEW", reason |-> <<"u", "n", "s", "e", "t">>, priority |-> 2,
     score |-> Num(40)],
    [id |-> "P4", name |-> "over", condition |-> <<"a">>,
     action |-> "APPROVED", reason |-> <<"o", "v", "e", "r">>, priority |-> 0,
     score |-> Num(150)],
    [id |-> "P5", name |-> "hash", condition |-> <<"#">>,
     action |-> "REJECTED", reason |-> <<"h", "a", "s", "h">>, priority |-> 1,
     score |-> Undefined] }
RuleLists == UNION {[1..n -> RulePool] : n \in 0..MaxRules}
RuleFacts ==
  { EmptyFacts, [a |-> Num(2)], [a |-> Num(1)] }

\* engine.loadRules(rules)
LoadRules(rules) ==
  /\ \E r \in {RuleEngine_loadRules(compiled, rules)} :
        /\ compiled' = r.compiled
        /\ ruleThrew' = r.threw
        /\ inserted' = IF r.threw THEN inserted ELSE rules
  /\ decision' = <<>>
  /\ decidedFacts' = EmptyFacts
  /\ UNCHANGED <<exprVars, reportVars, sharedVars, instanceVars, layerVars, conflictVars, verifyVars, ragVars, loggerVars, nextId, callVars>>

\* engine.addRule(rule)
AddRule(rule) ==
  /\ Len(compiled) < MaxRules
  /\ \E r \in {RuleEngine_addRule(compiled, rule)} :
        /\ compiled' = r.compiled
        /\ ruleThrew' = r.threw
        /\ inserted' = IF r.threw THEN inserted ELSE Append(inserted, rule)
  /\ decision' = <<>>
  /\ decidedFacts' = EmptyFacts
  /\ UNCHANGED <<exprVars, reportVars, sharedVars, instanceVars, layerVars, conflictVars, verifyVars, ragVars, loggerVars, nextId, callVars>>

\* engine.evaluate(facts)
Evaluate(facts) ==
  /\ nextId <= MaxAppends
  /\ decision' = <<RuleEngine_evaluate(compiled, facts, nextId)>>
  /\ decidedFacts' = facts
  /\ nextId' = nextId + 1
  /\ UNCHANGED <<exprVars, reportVars, sharedVars, instanceVars, layerVars, conflictVars, verifyVars, ragVars, compiled, inserted, ruleThrew, loggerVars, callVars>>

InitRules ==
  /\ expression = <<>>
  /\ exprFacts = EmptyFacts
  /\ compileOutcome = <<>>
  /\ evalOutcome = <<>>
  /\ checkList = <<>>
  /\ lastReport = <<>>
  /\ loggers = <<>>
  /\ pipes = <<>>
  /\ evaluator = NewEvaluator
  /\ history = <<>>
  /\ quick = <<>>
  /\ evaluated = <<>>
  /\ conflicts = <<>>
  /\ lastVerify = <<>>
  /\ documents = <<>>
  /\ ingests = {}
  /\ nextDoc = 1
  /\ ingestResult = <<>>
  /\ compiled = <<>>
  /\ inserted = <<>>
  /\ decision = <<>>
  /\ decidedFacts = EmptyFacts
  /\ ruleThrew = FALSE
  /\ journal = <<>>
  /\ entries = <<>>
  /\ previousHash = Genesis
  /\ loaded = 0
  /\ hashAtOpen = Genesis
  /\ preload = FALSE
  /\ nextId = 1
  /\ now = 0
  /\ everFailed = FALSE
  /\ tampering = "none"
  /\ agent = [compliance |-> FALSE, stream |-> FALSE]
  /\ call = IdleCall
  /\ delivered = <<>>
  /\ response = <<>>
  /\ onDoneCalls = 0

NextRules ==
  \/ \E rules \in RuleLists : LoadRules(rules)
  \/ \E rule \in RulePool : AddRule(rule)
  \/ \E facts \in RuleFacts : Evaluate(facts)

SpecRules == InitRules /\ [][NextRules]_vars

\* the positions in the insertion order of the rules whose predicate is true
Matching == {i \in 1..Len(inserted) : evaluate(inserted[i].condition, decidedFacts).value}
\* the matching rule that wins: lowest priority, then first inserted
Winner ==
  CHOOSE i \in Matching :
    \A j \in Matching :
      \/ inserted[i].priority < inserted[j].priority
      \/ inserted[i].priority = inserted[j].priority /\ i <= j

\* C7: rule-engine priority. Whatever loadRules and addRule calls built the
\* rule set and whatever the facts, evaluate() returns the decision of the
\* rule with the lowest priority among the rules whose predicate is true,
\* the one inserted first among those of equal priority (and the REVIEW
\* decision without a rule when no predicate is true).
C7_PriorityOrder ==
  decision # <<>> =>
    IF Matching = {}
    THEN decision[1].matchedRule = <<>> /\ decision[1].result = "REVIEW"
    ELSE /\ decision[1].matchedRule = <<inserted[Winner]>>
         /\ decision[1].result = inserted[Winner].action
         /\ decision[1].reason = inserted[Winner].reason

C7_Witness ==
  /\ decision # <<>>
  /\ Len(inserted) = 2
  /\ inserted[1] # inserted[2]
  /\ inserted[1].priority = inserted[2].priority
  /\ Matching = {1, 2}
  /\ decision[1].matchedRule = <<inserted[1]>>

\* C10: score bounds. Every Decision returned by evaluate, for every rule set
\* loadRules / addRule accepted (score overrides included) and every facts,
\* has a score that is an integer in [0, 100].
C10_ScoreBounds ==
  decision # <<>> =>
    /\ Tag(decision[1].score) = "num"
    /\ decision[1].score[2] % Scale = 0
    /\ decision[1].score[2] >= 0
    /\ decision[1].score[2] <= 100 * Scale

\* ----------------------------------------------------- compliance reports
\* the statuses a ComplianceCheck can carry
CheckStatuses == {"COMPLIANT", "REVIEW_REQUIRED", "NON_COMPLIANT"}
\* checks one evaluation collects
MaxChecks == 3
\* every list of at most MaxChecks checks
CheckSeqs == UNION {[1..n -> [status : CheckStatuses, passed : BOOLEAN]] : n \in 0..MaxChecks}

\* UAEComplianceLayer.evaluate(input, decision, auditEntry): the checks the
\* framework checkers pushed go through generateReport
EvaluateCompliance ==
  /\ lastReport = <<>>
  /\ lastReport' = <<generateReport(checkList)>>
  /\ UNCHANGED <<exprVars, engineVars, loggerVars, nextId, callVars, checkList,
                 sharedVars, instanceVars, layerVars, conflictVars, verifyVars, ragVars>>

InitReport ==
  /\ expression = <<>>
  /\ exprFacts = EmptyFacts
  /\ compileOutcome = <<>>
  /\ evalOutcome = <<>>
  /\ checkList \in CheckSeqs
  /\ lastReport = <<>>
  /\ loggers = <<>>
  /\ pipes = <<>>
  /\ evaluator = NewEvaluator
  /\ history = <<>>
  /\ quick = <<>>
  /\ evaluated = <<>>
  /\ conflicts = <<>>
  /\ lastVerify = <<>>
  /\ documents = <<>>
  /\ ingests = {}
  /\ nextDoc = 1
  /\ ingestResult = <<>>
  /\ compiled = <<>>
  /\ inserted = <<>>
  /\ decision = <<>>
  /\ decidedFacts = EmptyFacts
  /\ ruleThrew = FALSE
  /\ journal = <<>>
  /\ entries = <<>>
  /\ previousHash = Genesis
  /\ loaded = 0
  /\ hashAtOpen = Genesis
  /\ preload = FALSE
  /\ nextId = 1
  /\ now = 0
  /\ everFailed = FALSE
  /\ tampering = "none"
  /\ agent = [compliance |-> TRUE, stream |-> FALSE]
  /\ call = IdleCall
  /\ delivered = <<>>
  /\ response = <<>>
  /\ onDoneCalls = 0

NextReport == EvaluateCompliance

SpecReport == InitReport /\ [][NextReport]_vars

\* the statuses that occur among the checks of the report
StatusesOf(r) == {r.checks[i].status : i \in 1..Len(r.checks)}

\* C11: overall-status precedence. The report's overallStatus is
\* NON_COMPLIANT iff some check is NON_COMPLIANT; otherwise it is
\* REVIEW_REQUIRED iff some check is REVIEW_REQUIRED; otherwise (the empty
\* list included) it is COMPLIANT. The report carries the checks it was
\* made of.
C11_StatusPrecedence ==
  lastReport # <<>> =>
    /\ lastReport[1].checks = checkList
    /\ (lastReport[1].overallStatus = "NON_COMPLIANT"
          <=> "NON_COMPLIANT" \in StatusesOf(lastReport[1]))
    /\ ("NON_COMPLIANT" \notin StatusesOf(lastReport[1]) =>
          (lastReport[1].overallStatus = "REVIEW_REQUIRED"
             <=> "REVIEW_REQUIRED" \in StatusesOf(lastReport[1])))
    /\ (StatusesOf(lastReport[1]) \subseteq {"COMPLIANT"} =>
          lastReport[1].overallStatus = "COMPLIANT")

\* a REVIEW_REQUIRED check ahead of a NON_COMPLIANT one: NON_COMPLIANT wins
C11_Witness ==
  /\ lastReport # <<>>
  /\ Len(checkList) = 3
  /\ checkList[1].status = "REVIEW_REQUIRED"
  /\ checkList[2].status = "COMPLIANT"
  /\ checkList[3].status = "NON_COMPLIANT"
  /\ lastReport[1].overallStatus = "NON_COMPLIANT"

\* ------------------------------------------------------ LM call failures
\* the call in flight has invoked the LM, or the LM call has failed
LMInvoked == call.pc \in {"awaitThink", "awaitStream", "awaitThinkStream", "failed"}

\* the pre-check entry of the call is in the logger's in-memory list
PreCheckKept == \E i \in 1..Len(entries) : entries[i] = call.preAudit[1]

\* the pre-check entry of the call has its line in the journal
PreCheckWritten == \E i \in 1..Len(journal) : journal[i].id = call.preAudit[1].id

\* a call that invoked the LM and rejected before any post-check did so
\* with the LM's error, without a result and without onDone
FailedCall ==
  (call.pc = "failed" /\ call.lmCalls = 1 /\ call.logged = 1) =>
    /\ call.error # <<>>
    /\ call.error[1] \in LMErrors
    /\ response = <<>>
    /\ onDoneCalls = 0

ComplianceThrew == call.kind # "none" /\ call.error = <<ComplianceError>>

\* the report carried is the degenerate one
Degenerate(r) == r # <<>> /\ r[1].overallStatus = "REVIEW_REQUIRED" /\ r[1].checks = <<>>

\* C13: a failing compliance evaluation does not abort the pipeline. When
\* compliance.evaluate throws in the pre-check or the post-check, the call
\* does not reject, and the entry appended by that check and its decision
\* carry a report with overallStatus REVIEW_REQUIRED and no checks.
C13_ComplianceFailureTolerated ==
  ComplianceThrew =>
    /\ call.pc # "failed"
    /\ Len(entries) > 0
    /\ Degenerate(entries[Len(entries)].compliance)
    /\ Degenerate(entries[Len(entries)].output.complianceReport)

\* ------------------------------------------------------ runStream ordering
\* the entry is in the logger's in-memory list
Appended(e) == \E i \in 1..Len(entries) : entries[i].id = e.id

\* at every moment of a runStream call: the chunks handed to onChunk are
\* the chunks produced so far, in the order of their production; onDone
\* has been invoked once at most, and when it has the call is over, and the
\* post-check entry of a call that was not blocked has been appended
StreamOrdered ==
  call.kind = "runStream" =>
    /\ onDoneCalls <= 1
    /\ call.pc = "awaitStream" => delivered = call.chunks
    /\ (call.pc = "done" /\ agent.stream /\ ~IsRejected(call.preDecision[1])) =>
         delivered = call.chunks
    /\ (call.pc = "done" /\ ~agent.stream /\ response # <<>>
          /\ ~IsRejected(call.preDecision[1])) =>
         delivered = [i \in 1..Len(SplitSpaces(response[1].output, <<>>, <<>>)) |->
                        SplitSpaces(response[1].output, <<>>, <<>>)[i] \o <<" ">>]
    /\ onDoneCalls = 1 =>
         /\ call.pc = "done"
         /\ response # <<>>
         /\ ~IsRejected(call.preDecision[1]) =>
              /\ call.logged = 2
              /\ Len(response[1].auditTrail) = 2
              /\ Appended(response[1].auditTrail[2])

\* a step of the same runStream call taken after onDone was invoked hands
\* no chunk to onChunk and does not invoke onDone again
QuietAfterDone ==
  (call.kind = "runStream" /\ onDoneCalls = 1 /\ call'.preAudit = call.preAudit) =>
    (delivered' = delivered /\ onDoneCalls' = 1)

\* C14: runStream ordering. For one runStream call, onChunk receives the
\* chunks serially in the order they are produced, onDone is invoked at
\* most once, only after the last onChunk and after the post-check entry
\* has been appended, and no onChunk follows onDone.
C14_StreamOrdering == []StreamOrdered /\ [][QuietAfterDone]_vars

\* a native stream of two different chunks, then the post-check and onDone
C14_Witness ==
  /\ call.kind = "runStream"
  /\ agent.stream
  /\ onDoneCalls = 1
  /\ Len(delivered) = 2
  /\ delivered[1] # delivered[2]
  /\ call.logged = 2
  /\ Len(entries) = 2

\* ------------------------------------------------- concurrent pipelines
\* agents constructed with the same audit path
MaxAgents == 2
\* run / runStream calls made in one behaviour
MaxCalls == 2

\* logger.log of agent a for decision d: the agent's logger and the journal
\* after it
LoggedBy(a, l) ==
  /\ loggers' = [loggers EXCEPT ![a] = [entries |-> l.entries,
                                        previousHash |-> l.previousHash]]
  /\ journal' = l.journal

\* engine.evaluate(facts) and logger.log(decision, facts) of agent a; the
\* agents have no compliance layer, so applyCompliance returns at once
PipeCheck(a, facts, writeOk, d) ==
  /\ LoggedBy(a, AuditLogger_log(loggers[a].entries, loggers[a].previousHash, journal,
                                 d, facts, now, writeOk))
  /\ now' = now + 1
  /\ nextId' = nextId + 1
  /\ everFailed' = (everFailed \/ ~writeOk)

\* call c: run(input) or runStream(input, ...) on agent a, up to its return
\* (REJECTED) or its await of the LM
PipeStart(c, a, kind, input, writeOk) ==
  /\ pipes[c].pc = "idle"
  /\ \E d \in {RuleEngine_evaluate(compiled, input, nextId)} :
        /\ PipeCheck(a, input, writeOk, d)
        /\ pipes' = [pipes EXCEPT ![c] = [pc |-> IF IsRejected(d) THEN "done" ELSE "await",
                                          kind |-> kind, agent |-> a, input |-> input]]
  /\ UNCHANGED <<exprVars, reportVars, instanceVars, layerVars, conflictVars, verifyVars, ragVars, engineVars, entries, previousHash,
                 loaded, hashAtOpen, preload, tampering, callVars>>

\* call c: the LM resolved with output; the post-check of the call
PipeResolved(c, output, writeOk) ==
  /\ pipes[c].pc = "await"
  /\ \E facts \in {PostFacts(pipes[c].input, output)} :
     \E d \in {RuleEngine_evaluate(compiled, facts, nextId)} :
        PipeCheck(pipes[c].agent, facts, writeOk, d)
  /\ pipes' = [pipes EXCEPT ![c].pc = "done"]
  /\ UNCHANGED <<exprVars, reportVars, instanceVars, layerVars, conflictVars, verifyVars, ragVars, engineVars, entries, previousHash,
                 loaded, hashAtOpen, preload, tampering, callVars>>

\* call c: the LM call rejected
PipeRejected(c) ==
  /\ pipes[c].pc = "await"
  /\ pipes' = [pipes EXCEPT ![c].pc = "failed"]
  /\ UNCHANGED <<exprVars, reportVars, instanceVars, layerVars, conflictVars, verifyVars, ragVars, engineVars, loggerVars, nextId,
                 callVars, loggers>>

\* MaxAgents agents constructed on the same, still empty, audit path
InitShared ==
  /\ expression = <<>>
  /\ exprFacts = EmptyFacts
  /\ compileOutcome = <<>>
  /\ evalOutcome = <<>>
  /\ checkList = <<>>
  /\ lastReport = <<>>
  /\ loggers = [a \in 1..MaxAgents |->
                  [entries |-> AuditLogger_new(<<>>, FALSE).entries,
                   previousHash |-> AuditLogger_new(<<>>, FALSE).previousHash]]
  /\ pipes = [c \in 1..MaxCalls |->
                [pc |-> "idle", kind |-> "none", agent |-> 1, input |-> EmptyFacts]]
  /\ evaluator = NewEvaluator
  /\ history = <<>>
  /\ quick = <<>>
  /\ evaluated = <<>>
  /\ conflicts = <<>>
  /\ lastVerify = <<>>
  /\ documents = <<>>
  /\ ingests = {}
  /\ nextDoc = 1
  /\ ingestResult = <<>>
  /\ compiled = RuleEngine_loadRules(<<>>, AgentRules).compiled
  /\ inserted = AgentRules
  /\ decision = <<>>
  /\ decidedFacts = EmptyFacts
  /\ ruleThrew = FALSE
  /\ journal = <<>>
  /\ entries = <<>>
  /\ previousHash = Genesis
  /\ loaded = 0
  /\ hashAtOpen = Genesis
  /\ preload = FALSE
  /\ nextId = 1
  /\ now = 0
  /\ everFailed = FALSE
  /\ tampering = "none"
  /\ agent = [compliance |-> FALSE, stream |-> FALSE]
  /\ call = IdleCall
  /\ delivered = <<>>
  /\ response = <<>>
  /\ onDoneCalls = 0

NextShared ==
  \/ \E c \in 1..MaxCalls, a \in 1..MaxAgents, kind \in {"run", "runStream"},
        input \in Inputs, writeOk \in BOOLEAN :
       PipeStart(c, a, kind, input, writeOk)
  \/ \E c \in 1..MaxCalls, output \in LMTexts, writeOk \in BOOLEAN :
       PipeResolved(c, output, writeOk)
  \/ \E c \in 1..MaxCalls : PipeRejected(c)

SpecShared == InitShared /\ [][NextShared]_vars

\* every call has been made and is over
AllFinished == \A c \in 1..MaxCalls : pipes[c].pc \in {"done", "failed"}

\* C15: concurrent pipelines. When run / runStream calls interleave at the
\* LM await against one journal file, on one agent or on several agents
\* constructed with the same audit path, then once all calls are over (and
\* no journal write failed) the journal is a single hash chain:
\* verifyFull() returns true.
C15_ConcurrentSingleChain ==
  (AllFinished /\ ~everFailed) => verifyFull(journal, loggers[1].entries)

\* ------------------------------------------------- journal write failures
\* C16: write before advance. The chain pointer advances to a new hash
\* only once the entry's line is in the journal: at every state
\* this.previousHash is the genesis value or the hash of an entry that is
\* present in the journal.
C16_WriteBeforeAdvance ==
  previousHash = Genesis \/ \E i \in 1..Len(journal) : journal[i].hash = previousHash

\* a step in which log() ran; one in which its journal write failed
LogStep == nextId' = nextId + 1
FailedWriteStep == LogStep /\ journal' = journal

\* the entry log() returned is the last of the in-memory list, which was
\* only appended to; it is complete, linked to the chain pointer, and the
\* chain pointer has advanced to its hash
KeptAndLinked ==
  /\ Len(entries') = Len(entries) + 1
  /\ SubSeq(entries', 1, Len(entries)) = entries
  /\ HashCorrect(entries'[Len(entries')])
  /\ entries'[Len(entries')].previousHash = previousHash
  /\ previousHash' = entries'[Len(entries')].hash

\* C17: persistence degradation never propagates. When the journal write
\* inside log() fails, log() still returns the full entry and appends it to
\* the in-memory list, verify() stays true, and the next append links to
\* that entry.
C17_WriteFailureTolerated ==
  [][(FailedWriteStep => KeptAndLinked /\ (verify(entries) => verify(entries')))
       /\ (LogStep => entries'[Len(entries')].previousHash = previousHash)]_vars

\* the first write failed, the second append succeeded and links to the
\* entry that is not in the journal
C17_Witness ==
  /\ everFailed
  /\ Len(entries) = 2
  /\ Len(journal) = 1
  /\ journal[1].id = entries[2].id
  /\ entries[2].previousHash = entries[1].hash
  /\ verify(entries)

\* ------------------------------------------------------------ cancellation
\* The caller's cancellation signal fires while the call awaits the LM.
\* run(input) and runStream(input, onChunk, onDone) take no signal and
\* nothing in them listens for one: only the caller knows it fired.
Cancel ==
  /\ call.pc \in {"awaitThink", "awaitStream", "awaitThinkStream"}
  /\ ~call.cancelled
  /\ call' = [call EXCEPT !.cancelled = TRUE]
  /\ UNCHANGED <<exprVars, reportVars, sharedVars, instanceVars, layerVars, conflictVars, verifyVars, ragVars, engineVars, loggerVars,
                 nextId, agent, delivered, response, onDoneCalls>>

\* agents without a compliance layer
InitCancel == Init /\ ~agent.compliance

NextCancel == Next \/ Cancel

SpecCancel == InitCancel /\ [][NextCancel]_vars

\* the annotation of the synthetic post-decision
CancelledReason == <<"c", "a", "n", "c", "e", "l", "l", "e", "d">>

\* C18: cancellation. A call whose cancellation signal fired after the
\* pre-check append ends without raising; its result holds the pre-check
\* decision and a synthetic REVIEW post-decision annotated "cancelled"; no
\* post-check entry is appended and the pre-check entry stays in the log.
C18_Cancellation ==
  (call.cancelled /\ call.pc \in {"done", "failed"}) =>
    /\ call.pc = "done"
    /\ call.logged = 1
    /\ PreCheckKept
    /\ (call.kind = "run" \/ call.hasOnDone) =>
         /\ response # <<>>
         /\ Len(response[1].decisions) = 2
         /\ response[1].decisions[1] = call.preDecision[1]
         /\ response[1].decisions[2].result = "REVIEW"
         /\ response[1].decisions[2].reason = CancelledReason

\* ------------------------------------------- the shared evaluator instance
\* calls made of the shared instance in one behaviour
MaxEvals == 3

\* conditions compiled into predicates over one ExpressionEvaluator, as
\* RuleEngine does with its module-level _evaluator, and expressions handed
\* to evaluate directly
SharedExprs ==
  { <<"a", " ", ">", " ", "1">>, <<"!", "a">>, <<"a", " ", ">", " ">>, <<"#">> }
SharedFacts == { EmptyFacts, [a |-> Num(2)] }

\* pos is left where the last call left it
StartPos_Leftover(inst, toks) == IF inst.pos < Len(toks) THEN inst.pos + 1 ELSE Len(toks)
\* evaluate: this.tokens = tokenize(expression); this.pos = 0 (the first
\* token, index 1 here), whatever the fields held before
StartPos(inst, toks) == 1

\* this.pos when evaluate is over: behind the last token consumed, or,
\* when the parser threw, wherever it had got to
LeftoverPos(toks, r) == IF r.ok THEN {r.pos - 1} ELSE 0..(Len(toks) - 1)

\* this.evaluate(e, facts) on the shared instance, called directly or
\* through a predicate compile(e) returned
EvaluateOn(e, facts) ==
  /\ Len(history) < MaxEvals
  /\ \E t \in {tokenize(e)} :
       IF ~t.ok
       THEN /\ history' = Append(history, [expr |-> e, facts |-> facts, value |-> FALSE])
            /\ UNCHANGED evaluator
       ELSE \E r \in {parseOr(t.toks, StartPos(evaluator, t.toks), facts)} :
            \E p \in LeftoverPos(t.toks, r) :
              /\ evaluator' = [tokens |-> t.toks, pos |-> p]
              /\ history' = Append(history,
                                   [expr |-> e, facts |-> facts,
                                    value |-> Caught(Parsed(t.toks, r)).value])
  /\ UNCHANGED <<exprVars, reportVars, sharedVars, engineVars, loggerVars, nextId,
                 callVars, ragVars, verifyVars, conflictVars, layerVars>>

\* a predicate returned by compile(e) is called with facts
CallPredicate(e, facts) ==
  /\ ~compile(e).threw
  /\ EvaluateOn(e, facts)

\* evaluate(e, facts) is called on the instance
CallEvaluate(e, facts) ==
  /\ e \in SharedExprs
  /\ EvaluateOn(e, facts)

\* compile(e) is called on the instance: it tokenizes and returns a closure
CompileShared(e) ==
  /\ compileOutcome' = <<compile(e)>>
  /\ UNCHANGED <<expression, exprFacts, evalOutcome, reportVars, sharedVars, instanceVars, layerVars, conflictVars, verifyVars, ragVars,
                 engineVars, loggerVars, nextId, callVars>>

InitInstance == InitRules

NextInstance ==
  \/ \E e \in SharedExprs, facts \in SharedFacts : CallPredicate(e, facts)
  \/ \E e \in SharedExprs, facts \in SharedFacts : CallEvaluate(e, facts)
  \/ \E e \in SharedExprs : CompileShared(e)

SpecInstance == InitInstance /\ [][NextInstance]_vars

\* C19: determinism and statelessness. Whatever calls of evaluate, compile
\* and of compiled predicates were made on the shared instance before, a
\* call returns for its expression and facts the boolean that
\* evaluate(expression, facts) gives on its own: two calls with the same
\* expression and facts return the same value.
C19_StatelessPredicates ==
  /\ \A i \in 1..Len(history) :
       history[i].value = evaluate(history[i].expr, history[i].facts).value
  /\ \A i, j \in 1..Len(history) :
       (history[i].expr = history[j].expr /\ history[i].facts = history[j].facts)
         => history[i].value = history[j].value

\* a predicate called twice with the same facts, true both times, with a
\* call that failed in the parser in between
C19_Witness ==
  /\ Len(history) = 3
  /\ history[1].expr = <<"a", " ", ">", " ", "1">>
  /\ history[1].facts = [a |-> Num(2)]
  /\ history[1].value
  /\ history[2].expr = <<"a", " ", ">", " ">>
  /\ history[3] = history[1]
  /\ evaluator.pos > 0

\* ------------------------------------------------------ streamed content
\* a runStream call that handed its result record to onDone
StreamDone == call.kind = "runStream" /\ onDoneCalls = 1 /\ response # <<>>

\* the call streamed the words of think()'s output
Simulated == ~agent.stream /\ ~IsRejected(call.preDecision[1])

\* C20 as stated: in every path of runStream the chunks handed to onChunk,
\* concatenated in delivery order, are the output of the record handed to
\* onDone.
C20_StreamPreservesContent ==
  StreamDone => JoinChunks(delivered) = response[1].output

\* C20, amended: that holds in the blocked path and with native streaming;
\* when the words of think()'s output are streamed, each with a space
\* behind it, the concatenation is the output followed by one space.
C20_StreamContent ==
  StreamDone =>
    JoinChunks(delivered) =
      IF Simulated THEN response[1].output \o <<" ">> ELSE response[1].output

\* think() returned "ok go"; onChunk got "ok " and "go "
C20_Witness ==
  /\ StreamDone
  /\ Simulated
  /\ response[1].output = <<"o", "k", " ", "g", "o">>
  /\ delivered = << <<"o", "k", " ">>, <<"g", "o", " ">> >>

\* ------------------------------------------------------ gating of outputs
\* C21: rules gate LM outputs as well as inputs. Whenever a decision of
\* the record returned by run() is REJECTED, pre-check or post-check, the
\* output of the record is "Blocked by rule: " followed by that decision's
\* reason.
C21_RulesGateOutputs ==
  (call.kind = "run" /\ response # <<>>) =>
    \A i \in 1..Len(response[1].decisions) :
      IsRejected(response[1].decisions[i]) =>
        response[1].output = BlockedPrefix \o response[1].decisions[i].reason

\* ------------------------------------------------------ RAG deduplication
\* A content is its trimmed body and whether whitespace trails it; a body
\* either splits into chunks of more than 20 characters or it does not.
MaxDocs == 3
DocNames == {"Law", "law", "Act"}
DocContents == [body : {"long1", "long2", "short"}, pad : BOOLEAN]

\* String.prototype.toLowerCase over DocNames
toLowerCase(name) == IF name = "Law" THEN "law" ELSE IF name = "Act" THEN "act" ELSE name

\* chunk(text).length: chunks whose trimmed length is at most 20 are
\* filtered out, so a short text has none
ChunkCount(content) == IF content.body = "short" THEN 0 ELSE 1

\* contentHash(content): SHA-256 of content.trim()
contentHash(content) == <<"sha256", content.body>>

\* findByHash(hash) / findByName(name): the first match, as an option
FirstWhere(docs, Hit(_)) ==
  LET hits == {i \in 1..Len(docs) : Hit(docs[i])}
  IN  IF hits = {} THEN <<>>
      ELSE <<docs[CHOOSE i \in hits : \A j \in hits : i <= j]>>
findByHash(docs, hash) == FirstWhere(docs, LAMBDA d : d.contentHash = hash)
findByName(docs, name) == FirstWhere(docs, LAMBDA d : toLowerCase(d.name) = toLowerCase(name))

\* deleteDocument(docId) on the list: splice out the first document with the id
RemoveDoc(docs, docId) ==
  LET hits == {i \in 1..Len(docs) : docs[i].id = docId}
      idx  == CHOOSE i \in hits : \A j \in hits : i <= j
  IN  IF hits = {} THEN docs
      ELSE SubSeq(docs, 1, idx - 1) \o SubSeq(docs, idx + 1, Len(docs))

NewDoc(docId, name, content) ==
  [id |-> docId, name |-> name, content |-> content, contentHash |-> contentHash(content)]

\* ingest(name, content) up to its first await, on the list docs: a
\* duplicate returns at once; otherwise a document id is drawn and the call
\* suspends at embed() of its first chunk, or, having no chunk, pushes the
\* document at once.
IngestFrom(docs, name, content) ==
  IF findByHash(docs, contentHash(content)) # <<>>
  THEN /\ documents' = docs
       /\ ingestResult' = <<[op |-> "ingest", duplicate |-> TRUE, duplicateType |-> "hash"]>>
       /\ UNCHANGED <<ingests, nextDoc>>
  ELSE IF findByName(docs, name) # <<>>
  THEN /\ documents' = docs
       /\ ingestResult' = <<[op |-> "ingest", duplicate |-> TRUE, duplicateType |-> "name"]>>
       /\ UNCHANGED <<ingests, nextDoc>>
  ELSE /\ nextDoc' = nextDoc + 1
       /\ IF ChunkCount(content) = 0
          THEN /\ documents' = Append(docs, NewDoc(nextDoc, name, content))
               /\ ingestResult' = <<[op |-> "ingest", duplicate |-> FALSE, duplicateType |-> "none"]>>
               /\ UNCHANGED ingests
          ELSE /\ documents' = docs
               /\ ingests' = ingests \cup {[id |-> nextDoc, name |-> name, content |-> content,
                                            left |-> ChunkCount(content)]}
               /\ UNCHANGED ingestResult

Ingest(name, content) ==
  /\ nextDoc <= MaxDocs
  /\ IngestFrom(documents, name, content)
  /\ UNCHANGED <<exprVars, reportVars, sharedVars, instanceVars, layerVars, conflictVars, verifyVars, engineVars, loggerVars, nextId, callVars>>

\* reingest(name, content): delete the document of that name, then ingest
Reingest(name, content) ==
  /\ nextDoc <= MaxDocs
  /\ LET existing == findByName(documents, name)
     IN  IngestFrom(IF existing = <<>> THEN documents ELSE RemoveDoc(documents, existing[1].id),
                    name, content)
  /\ UNCHANGED <<exprVars, reportVars, sharedVars, instanceVars, layerVars, conflictVars, verifyVars, engineVars, loggerVars, nextId, callVars>>

\* an awaited embed() resolves: the next chunk is embedded, or, after the
\* last one, the document is pushed and saved
EmbedResolved(p) ==
  /\ p \in ingests
  /\ IF p.left > 1
     THEN /\ ingests' = (ingests \ {p}) \cup {[p EXCEPT !.left = p.left - 1]}
          /\ UNCHANGED <<documents, ingestResult>>
     ELSE /\ ingests' = ingests \ {p}
          /\ documents' = Append(documents, NewDoc(p.id, p.name, p.content))
          /\ ingestResult' = <<[op |-> "ingest", duplicate |-> FALSE, duplicateType |-> "none"]>>
  /\ UNCHANGED <<exprVars, reportVars, sharedVars, instanceVars, layerVars, conflictVars, verifyVars, engineVars, loggerVars, nextId, callVars,
                 nextDoc>>

\* an awaited embed() rejects: ingest() rejects and stores nothing
EmbedRejected(p) ==
  /\ p \in ingests
  /\ ingests' = ingests \ {p}
  /\ ingestResult' = <<[op |-> "ingest", duplicate |-> FALSE, duplicateType |-> "threw"]>>
  /\ UNCHANGED <<exprVars, reportVars, sharedVars, instanceVars, layerVars, conflictVars, verifyVars, engineVars, loggerVars, nextId, callVars,
                 documents, nextDoc>>

\* deleteDocument(docId)
DeleteDocument(docId) ==
  /\ documents' = RemoveDoc(documents, docId)
  /\ ingestResult' = <<[op |-> "delete", duplicate |-> documents' # documents, duplicateType |-> "none"]>>
  /\ UNCHANGED <<exprVars, reportVars, sharedVars, instanceVars, layerVars, conflictVars, verifyVars, engineVars, loggerVars, nextId, callVars,
                 ingests, nextDoc>>

InitRag == InitShared

NextRag ==
  \/ \E name \in DocNames, content \in DocContents : Ingest(name, content)
  \/ \E name \in DocNames, content \in DocContents : Reingest(name, content)
  \/ \E p \in ingests : EmbedResolved(p)
  \/ \E p \in ingests : EmbedRejected(p)
  \/ \E docId \in 1..MaxDocs : DeleteDocument(docId)

SpecRag == InitRag /\ [][NextRag]_vars

\* C22: after any sequence of ingest, reingest and deleteDocument calls on
\* one RAGEngine, calls whose embedding steps overlap included, no two
\* stored documents have the same content hash and no two have the same
\* name compared case-insensitively.
C22_NoDuplicateDocuments ==
  \A i, j \in 1..Len(documents) :
    i < j => /\ documents[i].contentHash # documents[j].contentHash
             /\ toLowerCase(documents[i].name) # toLowerCase(documents[j].name)

\* ---------------------------------------------------- verifyFull is pure
\* verifyFull() that, like the constructor, moves the chain pointer to the
\* hash of the journal's last line
VerifyFull_Restoring ==
  /\ lastVerify' = <<[result |-> verifyFull(journal, entries), journal |-> journal,
                      entries |-> entries, previousHash |-> previousHash]>>
  /\ previousHash' = IF journal = <<>> \/ IsMalformed(journal[Len(journal)])
                     THEN previousHash ELSE journal[Len(journal)].hash
  /\ UNCHANGED <<exprVars, reportVars, sharedVars, instanceVars, layerVars, conflictVars, ragVars, engineVars, callVars, nextId,
                 journal, entries, loaded, hashAtOpen, preload, now, everFailed, tampering>>

\* AuditLogger.verifyFull(): reads the journal and returns a boolean
VerifyFull ==
  /\ lastVerify' = <<[result |-> verifyFull(journal, entries), journal |-> journal,
                      entries |-> entries, previousHash |-> previousHash]>>
  /\ UNCHANGED <<exprVars, reportVars, sharedVars, instanceVars, layerVars, conflictVars, ragVars, engineVars, callVars, nextId,
                 loggerVars>>

NextVerify ==
  \/ \E input \in Inputs, ts \in Timestamps, writeOk \in BOOLEAN :
       nextId <= MaxAppends /\ Log(input, ts, writeOk)
  \/ \E flag \in BOOLEAN : Reopen(flag)
  \/ VerifyFull

SpecVerify == Init /\ [][NextVerify]_vars

\* a step that records a verifyFull() call
VerifyFullStep == lastVerify' # <<>> /\ lastVerify' # lastVerify

\* nothing has changed since the previous verifyFull() call
SinceLastVerify ==
  /\ lastVerify # <<>>
  /\ lastVerify[1].journal = journal
  /\ lastVerify[1].entries = entries
  /\ lastVerify[1].previousHash = previousHash

\* C23: verifyFull() changes neither the journal nor the in-memory entries
\* nor the chain pointer, and a call made with no operation since the
\* previous call returns what the previous call returned.
C23_VerifyFullIdempotent ==
  [][/\ lastVerify' # lastVerify =>
          /\ journal' = journal
          /\ entries' = entries
          /\ previousHash' = previousHash
     /\ (VerifyFull /\ SinceLastVerify) => lastVerify'[1].result = lastVerify[1].result]_vars

\* a second verifyFull() has been made on a journal whose replay fails
\* while entries and pointer are those of the first
C23_Witness ==
  /\ lastVerify # <<>>
  /\ ~lastVerify[1].result
  /\ Len(entries) >= 2
  /\ Len(journal) >= 1
  /\ SinceLastVerify

\* ------------------------------------------------- loadRules is atomic
\* the lists a and b hold the same rules the same number of times
SameRules(a, b) ==
  /\ Len(a) = Len(b)
  /\ \A r \in RulePool :
       Cardinality({i \in 1..Len(a) : a[i] = r}) = Cardinality({i \in 1..Len(b) : b[i] = r})

\* a condition of rules does not tokenize
Invalid(rules) == \E i \in 1..Len(rules) : compile(rules[i].condition).threw

\* an engine loaded with lists of two valid rules and one whose condition
\* does not tokenize
LoadPool == {r \in RulePool : r.id \in {"P1", "P3", "P5"}}
LoadLists == UNION {[1..n -> LoadPool] : n \in 0..MaxRules}

NextLoad ==
  \/ \E rules \in LoadLists : LoadRules(rules)
  \/ \E rule \in LoadPool : AddRule(rule)
  \/ \E facts \in RuleFacts : Evaluate(facts)

SpecLoad == InitRules /\ [][NextLoad]_vars

\* C24: after a loadRules(rules) that succeeds the engine holds exactly the
\* given rules and none of the previous ones; if validating a condition
\* raises, loadRules raises and the previous rule set stays in effect.
C24_LoadRulesAtomic ==
  [][\A rules \in LoadLists :
       LoadRules(rules) =>
         IF Invalid(rules)
         THEN ruleThrew' /\ compiled' = compiled
         ELSE ~ruleThrew' /\ SameRules(compiled', rules)]_vars

\* a loadRules() has raised on an engine that held a full rule set, which
\* it still holds (addRule is not possible on a full set)
C24_Witness ==
  /\ ruleThrew
  /\ Len(compiled) = MaxRules
  /\ \A i \in 1..Len(compiled) : compiled[i].id \in {"P1", "P3"}

\* ---------------------------------------------------- ordering operators
OrderingOps == {"<", "<=", ">", ">="}

\* the expression is one ordering comparison of two primaries that are not
\* parenthesised
OrderingComparison ==
  /\ tokenize(expression).ok
  /\ Len(tokenize(expression).toks) = 4
  /\ tokenize(expression).toks[1][1] \in {"NUMBER", "STRING", "BOOL", "NULL", "IDENT"}
  /\ tokenize(expression).toks[2][1] = "OP"
  /\ tokenize(expression).toks[2][2] \in OrderingOps
  /\ tokenize(expression).toks[3][1] \in {"NUMBER", "STRING", "BOOL", "NULL", "IDENT"}

\* the comparison of the numbers the operands coerce to, false when either
\* does not coerce to a number
NumericOrdering(op, left, right) ==
  /\ Tag(ToNumber(left)) = "num"
  /\ Tag(ToNumber(right)) = "num"
  /\ CASE op = "<" -> ToNumber(left)[2] < ToNumber(right)[2]
       [] op = "<=" -> ToNumber(left)[2] <= ToNumber(right)[2]
       [] op = ">" -> ToNumber(left)[2] > ToNumber(right)[2]
       [] op = ">=" -> ToNumber(left)[2] >= ToNumber(right)[2]

\* C25: an ordering operator (<, <=, >, >=) yields false whenever either
\* operand is not numeric after coercion, two non-numeric strings or a
\* missing identifier included, and the numeric comparison otherwise.
C25_OrderingIsNumeric ==
  (evalOutcome # <<>> /\ OrderingComparison) =>
    evalOutcome[1].value =
      NumericOrdering(tokenize(expression).toks[2][2],
                      parsePrimary(tokenize(expression).toks, 1, exprFacts).val,
                      parsePrimary(tokenize(expression).toks, 3, exprFacts).val)

\* ------------------------------------------------------- detectConflicts
\* RuleEngine.detectConflicts(): the pairs (i < j) of loaded rules with the
\* same condition string and different actions, in loop order. The
\* description of a conflict is built from the two rules' names.
RECURSIVE ConflictsFrom(_, _, _)
ConflictsFrom(rules, i, j) ==
  IF i > Len(rules) THEN <<>>
  ELSE IF j > Len(rules) THEN ConflictsFrom(rules, i + 1, i + 2)
  ELSE (IF rules[i].condition = rules[j].condition /\ rules[i].action # rules[j].action
        THEN <<[ruleA |-> rules[i], ruleB |-> rules[j]]>>
        ELSE <<>>) \o ConflictsFrom(rules, i, j + 1)
detectConflicts(rules) == ConflictsFrom(rules, 1, 2)

\* rules whose conditions are equal, equal up to surrounding whitespace, or
\* different
ConflictPool ==
  {r \in RulePool : r.id \in {"P1", "P2", "P4"}} \cup
  { [id |-> "P6", name |-> "spaced", condition |-> <<"a", " ">>,
     action |-> "REVIEW", reason |-> <<"s", "p">>, priority |-> 1,
     score |-> Undefined] }
ConflictLists == UNION {[1..n -> ConflictPool] : n \in 0..MaxRules}

\* engine.detectConflicts()
DetectConflicts ==
  /\ conflicts' = <<[rules |-> compiled, found |-> detectConflicts(compiled)]>>
  /\ UNCHANGED <<exprVars, reportVars, sharedVars, instanceVars, layerVars, verifyVars, ragVars, engineVars,
                 loggerVars, nextId, callVars>>

NextConflicts ==
  \/ \E rules \in ConflictLists : LoadRules(rules)
  \/ \E rule \in ConflictPool : AddRule(rule)
  \/ DetectConflicts

SpecConflicts == InitRules /\ [][NextConflicts]_vars

\* rules i and j of the list conflict: equal conditions after trimming,
\* different actions
Conflicting(rules, i, j) ==
  /\ Trim(rules[i].condition) = Trim(rules[j].condition)
  /\ rules[i].action # rules[j].action

\* C26: detectConflicts() reports an unordered pair of loaded rules exactly
\* when their condition strings are equal after trimming and their actions
\* differ, and reports each such pair once.
C26_ConflictsExact ==
  conflicts # <<>> =>
    LET rules == conflicts[1].rules
        found == conflicts[1].found
        pairs == {p \in (1..Len(rules)) \X (1..Len(rules)) :
                    p[1] < p[2] /\ Conflicting(rules, p[1], p[2])}
    IN  /\ Len(found) = Cardinality(pairs)
        /\ \A p \in pairs :
             \E k \in 1..Len(found) :
               {found[k].ruleA, found[k].ruleB} = {rules[p[1]], rules[p[2]]}
        /\ \A k \in 1..Len(found) :
             \E p \in pairs :
               {found[k].ruleA, found[k].ruleB} = {rules[p[1]], rules[p[2]]}

\* ------------------------------------------- construction on a bad journal
\* line i of the journal is damaged (a torn write, an edit): it no longer
\* parses as JSON
CorruptLine(i) ==
  /\ i \in 1..Len(journal)
  /\ ~IsMalformed(journal[i])
  /\ journal' = [journal EXCEPT ![i] = MalformedLine]
  /\ tampering' = "modified"
  /\ UNCHANGED <<exprVars, reportVars, sharedVars, instanceVars, layerVars, conflictVars, verifyVars, ragVars, engineVars,
                 entries, previousHash, loaded, hashAtOpen, preload, now, everFailed, nextId,
                 callVars>>

NextCorrupt ==
  \/ \E input \in Inputs, ts \in Timestamps, writeOk \in BOOLEAN :
       nextId <= MaxLogs /\ Log(input, ts, writeOk)
  \/ \E flag \in BOOLEAN : Reopen(flag)
  \/ \E i \in 1..Len(journal) : CorruptLine(i)

SpecCorrupt == Init /\ [][NextCorrupt]_vars

\* C27: when a line of the journal is malformed, constructing an
\* AuditLogger on it, with preload or without, does not throw and treats
\* the chain as empty: no in-memory entry and the chain pointer at the
\* genesis hash.
C27_MalformedJournalIsEmpty ==
  [][\A flag \in BOOLEAN :
       (Reopen(flag) /\ \E i \in 1..Len(journal) : IsMalformed(journal[i])) =>
         entries' = <<>> /\ previousHash' = Genesis]_vars

\* ------------------------------------------- run and runStream, audited
\* what an audit entry records of a check: the facts, the rule, the decision
AuditOf(e) ==
  [input |-> e.input, rule |-> e.rule, result |-> e.output.result,
   reason |-> e.output.reason, score |-> e.output.score]

\* the entries the call appended, in order: its pre-check entry and the
\* post-check entry after it (log() calls made on the logger meanwhile
\* record facts without llmOutput)
TrailOfCall ==
  LET own == SelectSeq(entries, LAMBDA e : \/ e.id = call.preAudit[1].id
                                           \/ /\ e.id > call.preAudit[1].id
                                              /\ "llmOutput" \in DOMAIN e.input)
  IN  [i \in 1..Len(own) |-> AuditOf(own[i])]

\* the text the LM produced in a call that is over: the output run returned,
\* the chunks of completeStream joined, or the words handed to onChunk
\* without the space behind the last one
LMTextOfCall ==
  IF call.kind = "run" THEN response[1].output
  ELSE IF agent.stream THEN JoinChunks(call.chunks)
  ELSE SubSeq(JoinChunks(delivered), 1, Len(JoinChunks(delivered)) - 1)

\* what a check of facts under the loaded rules records
Checked(facts, d) ==
  [input |-> facts, rule |-> d.matchedRule, result |-> d.result, reason |-> d.reason,
   score |-> d.score]
CheckOf(facts) == Checked(facts, RuleEngine_evaluate(compiled, facts, 0))

\* the audit trail that the rule set, the facts and the LM text determine:
\* the pre-check and, unless it rejects, the post-check of the text
TrailFor(input, text) ==
  IF CheckOf(input).result = "REJECTED" THEN <<CheckOf(input)>>
  ELSE <<CheckOf(input), CheckOf(PostFacts(input, text))>>

\* C28: run and runStream are equivalent with respect to auditing. A call
\* of either that is over has appended the audit entries that the rule set,
\* the facts and the LM text determine, whether onDone was given or not.
C28_SameAuditTrail ==
  (call.pc = "done" /\ call.kind \in {"run", "runStream"}) =>
    TrailOfCall = TrailFor(call.input,
                           IF IsRejected(call.preDecision[1]) THEN <<>> ELSE LMTextOfCall)

\* a runStream without onDone streamed the words of think() and is over,
\* its post-check appended
C28_Witness ==
  /\ call.pc = "done"
  /\ call.kind = "runStream"
  /\ ~call.hasOnDone
  /\ ~agent.stream
  /\ call.logged = 2
  /\ Len(TrailOfCall) = 2
  /\ TrailOfCall[2].result = "REJECTED"

\* ----------------------------------------------- quickCheck and evaluate
\* What the checkers read of an input: whether a key names a purpose, how
\* many kinds of PII its strings hold, whether a residency field names the
\* UAE, and which consent, rights, breach-plan, sensitive-category, bias and
\* secret markers it carries. Of a decision: result, score, and whether its
\* reason is longer than 10 characters (it has an auditId, no confidence,
\* no explanation and no human-oversight field).
LayerInputs ==
  [purpose : BOOLEAN, pii : {0, 3}, inUAE : {TRUE}, consent : BOOLEAN, rights : {FALSE},
   sensitive : BOOLEAN, sensitiveConsent : BOOLEAN, breachPlan : {FALSE},
   bias : {FALSE}, secret : {FALSE}]
LayerDecisions == [result : {"APPROVED"}, score : {50, 85}, longReason : {TRUE}]

\* a ComplianceCheck: COMPLIANT when ok, otherwise the status failing
ComplianceCheck(framework, article, ok, failing) ==
  [framework |-> framework, article |-> article,
   status |-> IF ok THEN "COMPLIANT" ELSE failing, passed |-> ok]

\* PDPLChecker.check(input, config), config.dataResidency 'UAE'
PDPLChecker_check(input) ==
  << ComplianceCheck("PDPL", "Art. 4", input.purpose, "NON_COMPLIANT"),
     ComplianceCheck("PDPL", "Art. 10", input.pii <= 2, "REVIEW_REQUIRED"),
     ComplianceCheck("PDPL", "Art. 14", input.inUAE, "NON_COMPLIANT"),
     ComplianceCheck("PDPL", "Art. 6", input.pii = 0 \/ input.consent, "NON_COMPLIANT") >>

\* PDPLChecker.checkExtended(input, config)
PDPLChecker_checkExtended(input) ==
  << ComplianceCheck("PDPL", "Art. 3", input.rights, "REVIEW_REQUIRED"),
     ComplianceCheck("PDPL", "Art. 16", ~input.sensitive \/ input.sensitiveConsent,
                     "NON_COMPLIANT"),
     ComplianceCheck("PDPL", "Art. 18", input.breachPlan, "REVIEW_REQUIRED") >>

\* AIEthicsGuardrails.evaluate(decision, input, config); the confidence of
\* the decision is score / 100
AIEthicsGuardrails_evaluate(d, input) ==
  << ComplianceCheck("UAE_AI_ETHICS", "Inclusiveness Principle", ~input.bias,
                     "REVIEW_REQUIRED"),
     ComplianceCheck("UAE_AI_ETHICS", "Reliability Principle", d.score >= 60,
                     "NON_COMPLIANT"),
     ComplianceCheck("UAE_AI_ETHICS", "Transparency Principle", d.longReason,
                     "REVIEW_REQUIRED"),
     ComplianceCheck("UAE_AI_ETHICS", "Security Principle", ~input.secret, "NON_COMPLIANT"),
     ComplianceCheck("UAE_AI_ETHICS", "Accountability Principle",
                     d.result = "APPROVED" /\ d.score >= 75, "REVIEW_REQUIRED"),
     ComplianceCheck("UAE_AI_ETHICS", "Privacy Principle",
                     \A i \in 1..4 : PDPLChecker_check(input)[i].passed, "NON_COMPLIANT") >>

\* UAEComplianceLayer.evaluate(input, decision, auditEntry) with frameworks
\* ['PDPL', 'UAE_AI_ETHICS']: the checks pushed
LayerChecks(input, d) ==
  PDPLChecker_check(input) \o PDPLChecker_checkExtended(input)
    \o AIEthicsGuardrails_evaluate(d, input)

\* UAEComplianceLayer.quickCheck(input, decision): [passed, issues]
quickCheck(input, d) ==
  LET checks == PDPLChecker_check(input) \o AIEthicsGuardrails_evaluate(d, input)
      critical == SelectSeq(checks, LAMBDA c : c.status = "NON_COMPLIANT")
  IN  [passed |-> Len(critical) = 0,
       issues |-> [i \in 1..Len(critical) |-> <<critical[i].framework, critical[i].article>>]]

\* layer.quickCheck(input, d) is called
QuickCheck(input, d) ==
  /\ quick' = <<[input |-> input, decision |-> d, result |-> quickCheck(input, d)]>>
  /\ UNCHANGED <<exprVars, reportVars, sharedVars, instanceVars, conflictVars, verifyVars, ragVars,
                 engineVars, loggerVars, nextId, callVars, evaluated>>

\* layer.evaluate(input, d, auditEntry) is called
EvaluateLayer(input, d) ==
  /\ evaluated' = <<[input |-> input, decision |-> d]>>
  /\ checkList' = LayerChecks(input, d)
  /\ lastReport' = <<generateReport(LayerChecks(input, d))>>
  /\ UNCHANGED <<exprVars, sharedVars, instanceVars, conflictVars, verifyVars, ragVars,
                 engineVars, loggerVars, nextId, callVars, quick>>

NextLayer ==
  \/ \E input \in LayerInputs, d \in LayerDecisions : QuickCheck(input, d)
  \/ \E input \in LayerInputs, d \in LayerDecisions : EvaluateLayer(input, d)

SpecLayer == InitShared /\ [][NextLayer]_vars

\* C29: quickCheck(input, decision).passed is true only if evaluate over
\* the frameworks {PDPL, UAE_AI_ETHICS}, on the same input and decision,
\* produces no NON_COMPLIANT check.
C29_QuickCheckSound ==
  (/\ quick # <<>>
   /\ evaluated # <<>>
   /\ quick[1].input = evaluated[1].input
   /\ quick[1].decision = evaluated[1].decision
   /\ quick[1].result.passed) =>
    \A i \in 1..Len(lastReport[1].checks) : lastReport[1].checks[i].status # "NON_COMPLIANT"

\* ------------------------------------------- the journal and the memory
\* AuditLogger.queryFromDisk() without a filter: every line parsed, or
\* nothing when a line does not parse
queryFromDisk(file) ==
  IF \E i \in 1..Len(file) : IsMalformed(file[i]) THEN <<>>
  ELSE [i \in 1..Len(file) |-> Parse(file[i])]

\* the logger was opened on an absent (or empty) journal and every write
\* it made succeeded
OpenedAbsentAllWritten == hashAtOpen = Genesis /\ loaded = 0 /\ ~everFailed

\* C30: for a logger opened on an absent journal whose writes all succeed,
\* queryFromDisk() returns at every state, in the same order, entries equal
\* field for field to those query() / getEntries() return, also after
\* run() / runStream() of an agent with a compliance layer.
C30_MemoryMatchesJournal ==
  OpenedAbsentAllWritten => queryFromDisk(journal) = entries

====
